---------------------------- MODULE Spec2Model ----------------------------
(***************************************************************************)
(* Model of the rtvm instruction executor (src/executor/executor/mod.rs). *)
(*                                                                         *)
(* The executor is a single-threaded interpreter: the driver calls call()  *)
(* to open an entry frame and then execute() once per operation.  Typed    *)
(* values are kept as unsigned numbers below 256^size and stored in the    *)
(* stack little-endian, one byte per cell.  The word is two bytes wide, as *)
(* UWord is on a 16-bit target; types wider than the word are left out.    *)
(***************************************************************************)
EXTENDS Integers, Sequences, FiniteSets, TLC

VARIABLES
    functions,        \* Executor.functions: the function table (never changes)
    program_counter,  \* Executor.program_counter
    call_stack,       \* Executor.call_stack: sequence of FunctionCall records
    prepared_call,    \* Executor.prepared_call
    parameter_ptr,    \* Executor.parameter_ptr
    stack,            \* Executor.memory.stack: sequence of bytes, address a at index a+1
    files,            \* Executor.files: the bytes left to read in the current file
    last,             \* history: the last driver operation, its pre-state and its result
    ghost,            \* history: per call record bookkeeping used by the properties
    code,             \* the byte source of the decoder: the bytes not yet read
    decoded           \* history: the last decode_op, the bytes it was given and its result

vars == <<functions, program_counter, call_stack, prepared_call, parameter_ptr,
          stack, files, last, ghost, code, decoded>>

-----------------------------------------------------------------------------
(* Bounds of the model *)

StackLimit == 6      \* stack_limit handed to Executor::from_limits
MaxDepth == 3        \* cap on the number of call records
MaxCalls == 2        \* cap on the number of call() the driver makes
MaxParamPtr == 4     \* cap on parameter_ptr

-----------------------------------------------------------------------------
(* Primitive numeric surface *)

WordSize == 2

RECURSIVE Pow256(_)
Pow256(n) == IF n = 0 THEN 1 ELSE 256 * Pow256(n - 1)

WordMod == Pow256(WordSize)

OpTypes == {"U8", "I8", "U16", "I16", "Uw", "Iw", "F32", "F64"}

IsFloat(t) == t \in {"F32", "F64"}

SizeOf(t) ==
    CASE t \in {"U8", "I8"} -> 1
      [] t \in {"U16", "I16"} -> 2
      [] t = "F32" -> 4
      [] t = "F64" -> 8
      [] OTHER -> WordSize

IsSigned(t) == t \in {"I8", "I16", "Iw"}

TypeMod(t) == Pow256(SizeOf(t))

\* a float value: sign and magnitude; the magnitudes of the model are the
\* whole numbers below 2^16, which every float type holds exactly
Fl(neg, mag) == [neg |-> neg, mag |-> mag]

FloatNum(v) == IF v.neg THEN -v.mag ELSE v.mag

OfNum(n) == IF n < 0 THEN Fl(TRUE, -n) ELSE Fl(FALSE, n)

\* T::from_word: keep the low SizeOf(T) bytes of the word; `as` for a float
from_word(t, w) == IF IsFloat(t) THEN Fl(FALSE, w) ELSE w % TypeMod(t)

\* the number a value of type t stands for
Num(t, v) == IF IsFloat(t) THEN FloatNum(v) ELSE v

\* v == T::zero(): -0.0 is zero too
IsZero(t, v) == IF IsFloat(t) THEN v.mag = 0 ELSE v = 0

\* the signed reading of an unsigned representation, and back
ToInt(t, v) == IF IsSigned(t) /\ v >= TypeMod(t) \div 2 THEN v - TypeMod(t) ELSE v
OfInt(t, i) == i % TypeMod(t)

Abs(i) == IF i < 0 THEN -i ELSE i

\* division truncating toward zero, as the host's integer division
TruncDiv(a, b) ==
    IF (a < 0) = (b < 0) THEN Abs(a) \div Abs(b) ELSE -(Abs(a) \div Abs(b))

wrapping_add(t, x, y) == OfInt(t, x + y)
wrapping_sub(t, x, y) == OfInt(t, x - y)
wrapping_mul(t, x, y) == OfInt(t, ToInt(t, x) * ToInt(t, y))
wrapping_div(t, x, y) == OfInt(t, TruncDiv(ToInt(t, x), ToInt(t, y)))
wrapping_rem(t, x, y) ==
    OfInt(t, ToInt(t, x) - ToInt(t, y) * TruncDiv(ToInt(t, x), ToInt(t, y)))
wrapping_inc(t, x) == IF IsFloat(t) THEN OfNum(FloatNum(x) + 1) ELSE OfInt(t, x + 1)
wrapping_dec(t, x) == IF IsFloat(t) THEN OfNum(FloatNum(x) - 1) ELSE OfInt(t, x - 1)
wrapping_neg(t, x) ==
    IF IsFloat(t) THEN Fl(~x.neg, x.mag) ELSE OfInt(t, -ToInt(t, x))

RECURSIVE Pow2(_)
Pow2(n) == IF n = 0 THEN 1 ELSE 2 * Pow2(n - 1)

\* bitwise operators on the representations
RECURSIVE BitAnd(_, _)
BitAnd(x, y) ==
    IF x = 0 \/ y = 0 THEN 0
    ELSE (x % 2) * (y % 2) + 2 * BitAnd(x \div 2, y \div 2)

RECURSIVE BitXor(_, _)
BitXor(x, y) ==
    IF x = 0 THEN y
    ELSE IF y = 0 THEN x
    ELSE ((x + y) % 2) + 2 * BitXor(x \div 2, y \div 2)

BitOr(x, y) == x + y - BitAnd(x, y)

BitNot(t, x) == TypeMod(t) - 1 - x

\* wrapping shifts: the count is taken modulo the width of the type, Shr
\* keeps the sign of a signed type
Bits(t) == 8 * SizeOf(t)
wrapping_shl(t, x, n) ==
    (x % Pow2(Bits(t) - (n % Bits(t)))) * Pow2(n % Bits(t))
wrapping_shr(t, x, n) == OfInt(t, ToInt(t, x) \div Pow2(n % Bits(t)))

\* word arithmetic on addresses: UWord::wrapping_add
wadd(a, b) == (a + b) % WordMod

-----------------------------------------------------------------------------
(* Operand and operation vocabulary *)

Loc(u) == [k |-> "Loc", v |-> u]
Ind(u) == [k |-> "Ind", v |-> u]
RetO(u) == [k |-> "Ret", v |-> u]
Val(u) == [k |-> "Val", v |-> u]
Ref(u) == [k |-> "Ref", v |-> u]
Glb(u) == [k |-> "Glb", v |-> u]
Emp == [k |-> "Emp", v |-> 0]

\* every operation has the same shape: opcode, offset variant, up to three
\* operands, the offset operand and up to two type tags
MkOp(name, var, x, y, z, off, t, u) ==
    [op |-> name, var |-> var, x |-> x, y |-> y, z |-> z, off |-> off,
     t |-> t, u |-> u]

Op0(name) == MkOp(name, "None", Emp, Emp, Emp, Emp, "U8", "U8")
Op1(name, x) == MkOp(name, "None", x, Emp, Emp, Emp, "U8", "U8")
Un(name, x, t) == MkOp(name, "None", x, Emp, Emp, Emp, t, "U8")
UnFirst(name, x, off, t) == MkOp(name, "First", x, Emp, Emp, off, t, "U8")
Bin(name, x, y, t) == MkOp(name, "None", x, y, Emp, Emp, t, "U8")
BinVar(name, var, x, y, off, t) == MkOp(name, var, x, y, Emp, off, t, "U8")
Op3(name, x, y, z) == MkOp(name, "None", x, y, z, Emp, "U8", "U8")

Nop == Op0("Nop")

UnConditionals == {"Ift", "Iff"}
BinConditionals == {"Ife", "Ifl", "Ifg", "Ine", "Inl", "Ing"}
BitConditionals == {"Ifa", "Ifo", "Ifx", "Ina", "Ino", "Inx"}

\* Op::is_conditional
is_conditional(o) ==
    o.op \in UnConditionals \cup BinConditionals \cup BitConditionals \cup {"Cmp"}

\* Operand::map: displace the payload of an operand, Emp has none
operand_map(a, d) == IF a.k = "Emp" THEN a ELSE [a EXCEPT !.v = wadd(a.v, d)]

-----------------------------------------------------------------------------
(* Results *)

NoErr == [kind |-> "none", op |-> Nop, id |-> 0]
E(kind) == [kind |-> kind, op |-> Nop, id |-> 0]
IncorrectOperation(o) == [kind |-> "IncorrectOperation", op |-> o, id |-> 0]
UnknownFunction(id) == [kind |-> "UnknownFunction", op |-> Nop, id |-> id]

\* Result<T, ExecutionError> of a read
ValOk(v) == [ok |-> TRUE, err |-> NoErr, val |-> v]
ValErr(e) == [ok |-> FALSE, err |-> e, val |-> 0]

\* Result<(), ExecutionError> of a step on &mut self: s is the executor
\* afterwards, also when the step failed
StOk(s) == [ok |-> TRUE, err |-> NoErr, s |-> s]
StErr(e, s) == [ok |-> FALSE, err |-> e, s |-> s]

\* Executed
ExOk == [kind |-> "Ok", val |-> 0, err |-> NoErr]
ExEnd(v) == [kind |-> "End", val |-> v, err |-> NoErr]
ExSleep(v) == [kind |-> "Sleep", val |-> v, err |-> NoErr]
ExErr(e) == [kind |-> "Err", val |-> 0, err |-> e]
ExNone == [kind |-> "None", val |-> 0, err |-> NoErr]

-----------------------------------------------------------------------------
(* Memory: the stack region, bounded by the stack limit *)

Zeros(n) == [i \in 1..n |-> 0]

ToBytes(v, n) == [i \in 1..n |-> (v \div Pow256(i - 1)) % 256]

RECURSIVE FromBytes(_)
FromBytes(bs) ==
    IF Len(bs) = 0 THEN 0 ELSE bs[1] + 256 * FromBytes(Tail(bs))

InBounds(mem, ptr, n) == ptr + n <= Len(mem)

ReadBytes(mem, ptr, n) == [i \in 1..n |-> mem[ptr + i]]

WriteBytes(mem, ptr, bs) ==
    [i \in 1..Len(mem) |->
        IF i > ptr /\ i <= ptr + Len(bs) THEN bs[i - ptr] ELSE mem[i]]

RECURSIVE Log2(_)
Log2(n) == IF n <= 1 THEN 0 ELSE 1 + Log2(n \div 2)

\* IEEE-754 binary32 and binary64 of a whole number below 2^16: exponent and
\* the 16 leading bits of the fraction, the part of the encoding that is not
\* zero
FloatBias(t) == IF t = "F32" THEN 127 ELSE 1023
FloatShift(t) == IF t = "F32" THEN Pow2(7) ELSE Pow2(4)

FloatLead(t, mag) ==
    LET lead(e) ==
            ((e + FloatBias(t)) * Pow2(16) + (mag - Pow2(e)) * Pow2(16 - e))
                * FloatShift(t)
    IN IF mag = 0 THEN 0 ELSE lead(Log2(mag))

\* the bytes of a float, least significant first
FloatBytes(t, v) ==
    LET top == ToBytes(FloatLead(t, v.mag), 4)
        signed == [top EXCEPT ![4] = IF v.neg THEN @ + 128 ELSE @]
    IN Zeros(SizeOf(t) - 4) \o signed

\* the float of the bytes; floats that are not whole numbers below 2^16 are
\* outside the model
FloatOf(t, bs) ==
    LET whole(neg, e, fr) ==
            IF e \in 0..15 /\ fr % Pow2(16 - e) = 0
            THEN Fl(neg, Pow2(e) + fr \div Pow2(16 - e))
            ELSE Fl(neg, "unmodelled")
        split(neg, hi) ==
            whole(neg, hi \div Pow2(16) - FloatBias(t), hi % Pow2(16))
        decode(neg, low, lead, shift) ==
            IF low # Zeros(Len(low)) \/ lead % shift # 0
            THEN Fl(neg, "unmodelled")
            ELSE IF lead = 0 THEN Fl(neg, 0)
            ELSE split(neg, lead \div shift)
        parts(n) ==
            decode(bs[n] >= 128, SubSeq(bs, 1, n - 4),
                   FromBytes([SubSeq(bs, n - 3, n) EXCEPT ![4] = @ % 128]),
                   FloatShift(t))
    IN parts(SizeOf(t))

\* Memory::get::<T>(ptr)
mem_get(mem, ptr, t) ==
    IF InBounds(mem, ptr, SizeOf(t))
    THEN IF IsFloat(t)
         THEN ValOk(FloatOf(t, ReadBytes(mem, ptr, SizeOf(t))))
         ELSE ValOk(FromBytes(ReadBytes(mem, ptr, SizeOf(t))))
    ELSE ValErr(E("MemoryError"))

\* Memory::set::<T>(ptr, val): the memory afterwards
mem_set(mem, ptr, t, v) ==
    IF InBounds(mem, ptr, SizeOf(t))
    THEN [ok |-> TRUE, err |-> NoErr,
          mem |-> WriteBytes(mem, ptr, IF IsFloat(t) THEN FloatBytes(t, v)
                                       ELSE ToBytes(v, SizeOf(t)))]
    ELSE [ok |-> FALSE, err |-> E("MemoryError"), mem |-> mem]

\* Stack::expand(size): new bytes are zero; fails beyond the limit
stack_expand(mem, n) ==
    IF Len(mem) + n <= StackLimit
    THEN [ok |-> TRUE, err |-> NoErr, mem |-> mem \o Zeros(n)]
    ELSE [ok |-> FALSE, err |-> E("MemoryError"), mem |-> mem]

\* Stack::narrow(size): fails when the stack is shorter than size
stack_narrow(mem, n) ==
    IF n <= Len(mem)
    THEN [ok |-> TRUE, err |-> NoErr, mem |-> SubSeq(mem, 1, Len(mem) - n)]
    ELSE [ok |-> FALSE, err |-> E("MemoryError"), mem |-> mem]

\* Memory::compare(a, b, size)
mem_compare(mem, a, b, n) ==
    IF InBounds(mem, a, n) /\ InBounds(mem, b, n)
    THEN [ok |-> TRUE, err |-> NoErr, val |-> ReadBytes(mem, a, n) = ReadBytes(mem, b, n)]
    ELSE [ok |-> FALSE, err |-> E("MemoryError"), val |-> FALSE]

\* Files::read on the current file: the next byte, or none at the end of input
files_read(fs) ==
    IF Len(fs) > 0
    THEN [ok |-> TRUE, err |-> NoErr, some |-> TRUE, byte |-> Head(fs), files |-> Tail(fs)]
    ELSE [ok |-> TRUE, err |-> NoErr, some |-> FALSE, byte |-> 0, files |-> fs]

-----------------------------------------------------------------------------
(* The executor as a record, and its helpers *)

St == [pc |-> program_counter, cs |-> call_stack, prep |-> prepared_call,
       pp |-> parameter_ptr, stack |-> stack, files |-> files]

NoCall == [function |-> 0, base_ptr |-> 0, ret_val_ptr |-> 0,
           ret_program_counter |-> 0]

\* the Function a call record refers to
FunctionOf(c) == functions[c.function + 1]

\* Executor::current_call
current_call(s) ==
    IF s.prep
    THEN IF Len(s.cs) >= 2
         THEN [ok |-> TRUE, err |-> NoErr, call |-> s.cs[Len(s.cs) - 1]]
         ELSE [ok |-> FALSE, err |-> E("EndOfProgram"), call |-> NoCall]
    ELSE IF Len(s.cs) >= 1
         THEN [ok |-> TRUE, err |-> NoErr, call |-> s.cs[Len(s.cs)]]
         ELSE [ok |-> FALSE, err |-> E("EndOfProgram"), call |-> NoCall]

\* current_op that clamps the program counter to the last op of the program
current_op_clamped(s) ==
    LET fetch(c) ==
            IF ~c.ok THEN [ok |-> FALSE, err |-> c.err, op |-> Nop]
            ELSE LET prog == FunctionOf(c.call).program IN
                 IF s.pc < Len(prog)
                 THEN [ok |-> TRUE, err |-> NoErr, op |-> prog[s.pc + 1]]
                 ELSE IF Len(prog) > 0
                 THEN [ok |-> TRUE, err |-> NoErr, op |-> prog[Len(prog)]]
                 ELSE [ok |-> FALSE, err |-> E("EndOfProgram"), op |-> Nop]
    IN fetch(current_call(s))

\* Executor::current_op
current_op(s) ==
    LET fetch(c) ==
            IF ~c.ok THEN [ok |-> FALSE, err |-> c.err, op |-> Nop]
            ELSE LET prog == FunctionOf(c.call).program IN
                 IF s.pc < Len(prog)
                 THEN [ok |-> TRUE, err |-> NoErr, op |-> prog[s.pc + 1]]
                 ELSE [ok |-> FALSE, err |-> E("EndOfProgram"), op |-> Nop]
    IN fetch(current_call(s))

\* the error of reading or writing an operand that cannot be used:
\* IncorrectOperation(*self.current_op()?)
incorrect_operation(s) ==
    LET error(o) == IF o.ok THEN IncorrectOperation(o.op) ELSE o.err
    IN error(current_op(s))

\* get_val that tests the pointer stored at the operand instead of the payload
get_val_tests_stored_word(s, a, t) ==
    LET deref(p) ==
            IF ~p.ok THEN ValErr(p.err)
            ELSE IF p.val = 0 THEN ValErr(E("NullPointerDereference"))
            ELSE mem_get(s.stack, p.val, t)
        read(c) ==
            CASE a.k = "Loc" ->
                    IF ~c.ok THEN ValErr(c.err)
                    ELSE mem_get(s.stack, wadd(c.call.base_ptr, a.v), t)
              [] a.k = "Ind" ->
                    IF ~c.ok THEN ValErr(c.err)
                    ELSE deref(mem_get(s.stack, wadd(c.call.base_ptr, a.v), "Uw"))
              [] a.k = "Ret" ->
                    IF ~c.ok THEN ValErr(c.err)
                    ELSE mem_get(s.stack, wadd(c.call.ret_val_ptr, a.v), t)
              [] a.k = "Val" -> ValOk(from_word(t, a.v))
              [] a.k = "Ref" ->
                    IF ~c.ok THEN ValErr(c.err)
                    ELSE ValOk(from_word(t, wadd(c.call.base_ptr, a.v)))
              [] a.k = "Glb" -> mem_get(s.stack, a.v, t)
              [] OTHER -> ValErr(incorrect_operation(s))
    IN read(current_call(s))

\* Executor::get_val::<T>
get_val(s, a, t) ==
    LET deref(p) == IF ~p.ok THEN ValErr(p.err) ELSE mem_get(s.stack, p.val, t)
        read(c) ==
            CASE a.k = "Loc" ->
                    IF ~c.ok THEN ValErr(c.err)
                    ELSE mem_get(s.stack, wadd(c.call.base_ptr, a.v), t)
              [] a.k = "Ind" ->
                    IF a.v = 0 THEN ValErr(E("NullPointerDereference"))
                    ELSE IF ~c.ok THEN ValErr(c.err)
                    ELSE deref(mem_get(s.stack, wadd(c.call.base_ptr, a.v), "Uw"))
              [] a.k = "Ret" ->
                    IF ~c.ok THEN ValErr(c.err)
                    ELSE mem_get(s.stack, wadd(c.call.ret_val_ptr, a.v), t)
              [] a.k = "Val" -> ValOk(from_word(t, a.v))
              [] a.k = "Ref" ->
                    IF ~c.ok THEN ValErr(c.err)
                    ELSE ValOk(from_word(t, wadd(c.call.base_ptr, a.v)))
              [] a.k = "Glb" -> mem_get(s.stack, a.v, t)
              [] OTHER -> ValErr(incorrect_operation(s))
    IN read(current_call(s))

\* the outcome of a memory write as the outcome of a step
stored(s, m) ==
    IF m.ok THEN StOk([s EXCEPT !.stack = m.mem]) ELSE StErr(m.err, s)

\* set_val that treats Ref as Loc
set_val_writes_ref(s, a, t, v) ==
    LET write(c) ==
            CASE a.k \in {"Loc", "Ref"} ->
                    IF ~c.ok THEN StErr(c.err, s)
                    ELSE stored(s, mem_set(s.stack, wadd(c.call.base_ptr, a.v), t, v))
              [] a.k = "Ret" ->
                    IF ~c.ok THEN StErr(c.err, s)
                    ELSE stored(s, mem_set(s.stack, wadd(c.call.ret_val_ptr, a.v), t, v))
              [] a.k = "Glb" -> stored(s, mem_set(s.stack, a.v, t, v))
              [] OTHER -> StErr(incorrect_operation(s), s)
    IN write(current_call(s))

\* Executor::set_val::<T>
set_val(s, a, t, v) ==
    LET deref(p) ==
            IF ~p.ok THEN StErr(p.err, s)
            ELSE stored(s, mem_set(s.stack, p.val, t, v))
        write(c) ==
            CASE a.k = "Loc" ->
                    IF ~c.ok THEN StErr(c.err, s)
                    ELSE stored(s, mem_set(s.stack, wadd(c.call.base_ptr, a.v), t, v))
              [] a.k = "Ind" ->
                    IF a.v = 0 THEN StErr(E("NullPointerDereference"), s)
                    ELSE IF ~c.ok THEN StErr(c.err, s)
                    ELSE deref(mem_get(s.stack, wadd(c.call.base_ptr, a.v), "Uw"))
              [] a.k = "Ret" ->
                    IF ~c.ok THEN StErr(c.err, s)
                    ELSE stored(s, mem_set(s.stack, wadd(c.call.ret_val_ptr, a.v), t, v))
              [] a.k = "Glb" -> stored(s, mem_set(s.stack, a.v, t, v))
              [] OTHER -> StErr(incorrect_operation(s), s)
    IN write(current_call(s))

\* Executor::make_offset
make_offset(s, a, offset) ==
    LET shift(d) ==
            IF ~d.ok THEN [ok |-> FALSE, err |-> d.err, a |-> a]
            ELSE [ok |-> TRUE, err |-> NoErr, a |-> operand_map(a, d.val)]
    IN shift(get_val(s, offset, "Uw"))

\* Executor::read_un_operand
read_un_operand(s, o) ==
    IF o.var = "None" THEN [ok |-> TRUE, err |-> NoErr, a |-> o.x]
    ELSE make_offset(s, o.x, o.off)

\* Executor::read_bin_operands
\* read_bin_operands whose Both arm displaces the first operand only
read_bin_operands_both_first(s, o) ==
    LET both(mx, my) ==
            CASE o.var = "None" -> [ok |-> TRUE, err |-> NoErr, x |-> o.x, y |-> o.y]
              [] o.var = "Second" ->
                    [ok |-> my.ok, err |-> my.err, x |-> o.x, y |-> my.a]
              [] OTHER ->
                    [ok |-> mx.ok, err |-> mx.err, x |-> mx.a, y |-> o.y]
    IN both(make_offset(s, o.x, o.off), make_offset(s, o.y, o.off))

read_bin_operands(s, o) ==
    LET both(mx, my) ==
            CASE o.var = "None" -> [ok |-> TRUE, err |-> NoErr, x |-> o.x, y |-> o.y]
              [] o.var = "First" ->
                    [ok |-> mx.ok, err |-> mx.err, x |-> mx.a, y |-> o.y]
              [] o.var = "Second" ->
                    [ok |-> my.ok, err |-> my.err, x |-> o.x, y |-> my.a]
              [] OTHER ->
                    IF ~mx.ok THEN [ok |-> FALSE, err |-> mx.err, x |-> o.x, y |-> o.y]
                    ELSE [ok |-> my.ok, err |-> my.err, x |-> mx.a, y |-> my.a]
    IN both(make_offset(s, o.x, o.off), make_offset(s, o.y, o.off))

\* Executor::get_un::<T>
get_un(s, o, t) ==
    LET read(l) == IF ~l.ok THEN ValErr(l.err) ELSE get_val(s, l.a, t)
    IN read(read_un_operand(s, o))

\* the operands of a binary op and the values read from them, in the order
\* update_bin and the exec_if* tests read them: left, then right
bin_values(s, o, t) ==
    LET pair(ops, l, r) ==
            IF ~ops.ok
            THEN [ok |-> FALSE, err |-> ops.err, left |-> o.x, x |-> 0, y |-> 0]
            ELSE IF ~l.ok
            THEN [ok |-> FALSE, err |-> l.err, left |-> ops.x, x |-> 0, y |-> 0]
            ELSE IF ~r.ok
            THEN [ok |-> FALSE, err |-> r.err, left |-> ops.x, x |-> 0, y |-> 0]
            ELSE [ok |-> TRUE, err |-> NoErr, left |-> ops.x,
                  x |-> l.val, y |-> r.val]
        read(ops) == pair(ops, get_val(s, ops.x, t), get_val(s, ops.y, t))
    IN read(read_bin_operands(s, o))

\* the closures execute hands to update_un: f names the wrapping operation
closure_un(f, t, x) ==
    CASE f = "inc" -> wrapping_inc(t, x)
      [] f = "neg" -> wrapping_neg(t, x)
      [] f = "not" -> BitNot(t, x)
      [] OTHER -> wrapping_dec(t, x)

\* closures of which the one of exec_add stops at the largest representation
closure_bin_saturating(c, t, x, y) ==
    IF c.guarded /\ y = 0 THEN 0
    ELSE CASE c.f = "set" -> y
           [] c.f = "add" -> IF x + y >= TypeMod(t) THEN TypeMod(t) - 1 ELSE x + y
           [] c.f = "sub" -> wrapping_sub(t, x, y)
           [] c.f = "mul" -> wrapping_mul(t, x, y)
           [] c.f = "div" -> wrapping_div(t, x, y)
           [] OTHER -> wrapping_rem(t, x, y)

\* the closures execute hands to update_bin and update_bin_division; c.guarded
\* is the wrapper update_bin_division puts around its closure, which yields
\* zero for a zero divisor
closure_bin(c, t, x, y) ==
    IF c.guarded /\ y = 0 THEN 0
    ELSE CASE c.f = "set" -> y
           [] c.f = "add" -> wrapping_add(t, x, y)
           [] c.f = "sub" -> wrapping_sub(t, x, y)
           [] c.f = "mul" -> wrapping_mul(t, x, y)
           [] c.f = "div" -> wrapping_div(t, x, y)
           [] c.f = "and" -> BitAnd(x, y)
           [] c.f = "or" -> BitOr(x, y)
           [] c.f = "xor" -> BitXor(x, y)
           [] OTHER -> wrapping_rem(t, x, y)

\* exec_shl, exec_shr: the count is read as u8
exec_shift(s, o, t) ==
    LET write(xv, yv) ==
            IF ~xv.ok THEN StErr(xv.err, s)
            ELSE IF ~yv.ok THEN StErr(yv.err, s)
            ELSE set_val(s, o.x, t, IF o.op = "Shl" THEN wrapping_shl(t, xv.val, yv.val)
                                    ELSE wrapping_shr(t, xv.val, yv.val))
    IN write(get_val(s, o.x, t), get_val(s, o.y, "U8"))

\* Executor::update_un
update_un(s, o, t, f) ==
    LET write(l, v) ==
            IF ~v.ok THEN StErr(v.err, s)
            ELSE set_val(s, l.a, t, closure_un(f, t, v.val))
        read(l) == IF ~l.ok THEN StErr(l.err, s) ELSE write(l, get_val(s, l.a, t))
    IN read(read_un_operand(s, o))

\* Executor::update_bin
update_bin(s, o, t, c) ==
    LET write(b) ==
            IF ~b.ok THEN StErr(b.err, s)
            ELSE set_val(s, b.left, t, closure_bin(c, t, b.x, b.y))
    IN write(bin_values(s, o, t))

\* Executor::update_bin_division: the closure hands zero to update_bin when
\* the divisor is zero and raises the flag that turns the result into an error
update_bin_division(s, o, t, f) ==
    LET result(b, res) ==
            IF b.ok /\ b.y = 0 THEN StErr(E("DivisionByZero"), res.s) ELSE res
    IN result(bin_values(s, o, t),
              update_bin(s, o, t, [f |-> f, guarded |-> TRUE]))

-----------------------------------------------------------------------------
(* Calls *)

\* app that marks the call as prepared before it looks the function up
app_prepares_first(s, function_id) ==
    IF function_id >= Len(functions)
    THEN StErr(UnknownFunction(function_id), [s EXCEPT !.prep = TRUE])
    ELSE LET f == functions[function_id + 1]
             pushed == [s EXCEPT
                          !.cs = Append(s.cs, [function |-> function_id,
                                               base_ptr |-> Len(s.stack),
                                               ret_val_ptr |-> 0,
                                               ret_program_counter |-> 0]),
                          !.prep = TRUE]
         IN stored(pushed, stack_expand(s.stack, f.frame_size))

\* app that takes the base of the new frame after the stack has grown
app_base_after_expand(s, function_id) ==
    IF function_id >= Len(functions)
    THEN StErr(UnknownFunction(function_id), s)
    ELSE LET f == functions[function_id + 1]
             pushed == [s EXCEPT
                          !.cs = Append(s.cs, [function |-> function_id,
                                               base_ptr |-> Len(s.stack) + f.frame_size,
                                               ret_val_ptr |-> 0,
                                               ret_program_counter |-> 0]),
                          !.prep = TRUE]
         IN stored(pushed, stack_expand(s.stack, f.frame_size))

\* Executor::app
app(s, function_id) ==
    IF function_id >= Len(functions)
    THEN StErr(UnknownFunction(function_id), s)
    ELSE LET f == functions[function_id + 1]
             pushed == [s EXCEPT
                          !.cs = Append(s.cs, [function |-> function_id,
                                               base_ptr |-> Len(s.stack),
                                               ret_val_ptr |-> 0,
                                               ret_program_counter |-> 0]),
                          !.prep = TRUE]
         IN stored(pushed, stack_expand(s.stack, f.frame_size))

\* clf that refuses to activate a frame when no call is prepared
clf_needs_prepared_call(s, ret_val_ptr) ==
    IF Len(s.cs) = 0 \/ ~s.prep THEN StErr(E("EndOfProgram"), s)
    ELSE StOk([s EXCEPT
                 !.cs[Len(s.cs)].ret_val_ptr = ret_val_ptr,
                 !.cs[Len(s.cs)].ret_program_counter = wadd(s.pc, 1),
                 !.prep = FALSE,
                 !.pc = 0,
                 !.pp = 0])

\* clf that records the PC of the Clf itself as the return address
clf_returns_to_clf(s, ret_val_ptr) ==
    IF Len(s.cs) = 0 THEN StErr(E("EndOfProgram"), s)
    ELSE StOk([s EXCEPT
                 !.cs[Len(s.cs)].ret_val_ptr = ret_val_ptr,
                 !.cs[Len(s.cs)].ret_program_counter = s.pc,
                 !.prep = FALSE,
                 !.pc = 0,
                 !.pp = 0])

\* Executor::clf
clf(s, ret_val_ptr) ==
    IF Len(s.cs) = 0 THEN StErr(E("EndOfProgram"), s)
    ELSE StOk([s EXCEPT
                 !.cs[Len(s.cs)].ret_val_ptr = ret_val_ptr,
                 !.cs[Len(s.cs)].ret_program_counter = wadd(s.pc, 1),
                 !.prep = FALSE,
                 !.pc = 0,
                 !.pp = 0])

\* Executor::call
call(s, function_id, ret_val_ptr) ==
    LET then(a) == IF ~a.ok THEN a ELSE clf(a.s, ret_val_ptr)
    IN then(app(s, function_id))

\* ret that pops the record and leaves the PC where the callee stopped
ret_keeps_pc(s) ==
    IF Len(s.cs) = 0 THEN StErr(E("EndOfProgram"), s)
    ELSE LET current_fn == s.cs[Len(s.cs)]
             popped == [s EXCEPT !.cs = SubSeq(s.cs, 1, Len(s.cs) - 1)]
         IN stored(popped, stack_narrow(s.stack, FunctionOf(current_fn).frame_size))

\* Executor::ret
ret(s) ==
    IF Len(s.cs) = 0 THEN StErr(E("EndOfProgram"), s)
    ELSE LET current_fn == s.cs[Len(s.cs)]
             popped == [s EXCEPT
                          !.cs = SubSeq(s.cs, 1, Len(s.cs) - 1),
                          !.pc = current_fn.ret_program_counter]
         IN stored(popped, stack_narrow(s.stack, FunctionOf(current_fn).frame_size))

\* exec_par that takes the frame size of the record on top of the call stack
exec_par_top_frame(s, o, t) ==
    LET write(s1, parameter_loc, v) ==
            IF ~v.ok THEN StErr(v.err, s1)
            ELSE set_val(s1, Loc(parameter_loc), t, v.val)
        pass(c, s1) ==
            IF ~c.ok THEN StErr(c.err, s)
            ELSE write(s1, wadd(s.pp, FunctionOf(s.cs[Len(s.cs)]).frame_size),
                       get_un(s1, o, t))
    IN pass(current_call(s), [s EXCEPT !.pp = wadd(s.pp, SizeOf(t))])

\* exec_par that does not move parameter_ptr
exec_par_same_slot(s, o, t) ==
    LET write(parameter_loc, v) ==
            IF ~v.ok THEN StErr(v.err, s)
            ELSE set_val(s, Loc(parameter_loc), t, v.val)
        pass(c) ==
            IF ~c.ok THEN StErr(c.err, s)
            ELSE write(wadd(s.pp, FunctionOf(c.call).frame_size), get_un(s, o, t))
    IN pass(current_call(s))

\* Executor::exec_par::<T>
exec_par(s, o, t) ==
    LET write(s1, parameter_loc, v) ==
            IF ~v.ok THEN StErr(v.err, s1)
            ELSE set_val(s1, Loc(parameter_loc), t, v.val)
        pass(c, s1) ==
            IF ~c.ok THEN StErr(c.err, s)
            ELSE write(s1, wadd(s.pp, FunctionOf(c.call).frame_size),
                       get_un(s1, o, t))
    IN pass(current_call(s), [s EXCEPT !.pp = wadd(s.pp, SizeOf(t))])

\* Executor::set_ret::<T>
\* set_ret that stores the value at the start of the frame of the callee
set_ret_in_frame(s, o, t) ==
    LET write(v) == IF ~v.ok THEN StErr(v.err, s) ELSE set_val(s, Loc(0), t, v.val)
        read(r) == IF ~r.ok THEN StErr(r.err, s) ELSE write(get_val(s, r.a, t))
    IN read(read_un_operand(s, o))

set_ret(s, o, t) ==
    LET write(v) == IF ~v.ok THEN StErr(v.err, s) ELSE set_val(s, RetO(0), t, v.val)
        read(r) == IF ~r.ok THEN StErr(r.err, s) ELSE write(get_val(s, r.a, t))
    IN read(read_un_operand(s, o))

-----------------------------------------------------------------------------
(* Conditionals *)

\* pass_condition that skips the op after the conditional, whatever it is
pass_condition_one(s) ==
    LET skip(s1, o) ==
            IF ~o.ok THEN StErr(o.err, s1) ELSE StOk([s1 EXCEPT !.pc = s1.pc + 1])
        step(s1) == skip(s1, current_op(s1))
    IN step([s EXCEPT !.pc = s.pc + 1])

\* Executor::pass_condition
RECURSIVE pass_condition(_)
pass_condition(s) ==
    LET skip(s1, o) ==
            IF ~o.ok THEN StErr(o.err, s1)
            ELSE IF ~is_conditional(o.op) THEN StOk([s1 EXCEPT !.pc = s1.pc + 1])
            ELSE pass_condition(s1)
        step(s1) == skip(s1, current_op(s1))
    IN step([s EXCEPT !.pc = s.pc + 1])

BoolOk(b) == [ok |-> TRUE, err |-> NoErr, val |-> b]
BoolErr(e) == [ok |-> FALSE, err |-> e, val |-> FALSE]

\* the tests on one operand: Ift, Iff arms of execute
un_test(s, o) ==
    LET check(v) ==
            IF ~v.ok THEN BoolErr(v.err)
            ELSE BoolOk(IF o.op = "Ift" THEN ~IsZero(o.t, v.val)
                        ELSE IsZero(o.t, v.val))
    IN check(get_un(s, o, o.t))

\* Executor::exec_ife, exec_ifl, exec_ifg, exec_ine, exec_inl, exec_ing
\* exec_ife .. exec_ing with Inl as > and Ing as <
bin_test_strict(s, o) ==
    LET compare(x, y) ==
            CASE o.op = "Ife" -> x = y
              [] o.op = "Ifl" -> x < y
              [] o.op = "Ifg" -> x > y
              [] o.op = "Ine" -> x # y
              [] o.op = "Inl" -> x > y
              [] OTHER -> x < y
        check(b) ==
            IF ~b.ok THEN BoolErr(b.err)
            ELSE BoolOk(compare(ToInt(o.t, Num(o.t, b.x)), ToInt(o.t, Num(o.t, b.y))))
    IN check(bin_values(s, o, o.t))

bin_test(s, o) ==
    LET compare(x, y) ==
            CASE o.op = "Ife" -> x = y
              [] o.op = "Ifl" -> x < y
              [] o.op = "Ifg" -> x > y
              [] o.op = "Ine" -> x # y
              [] o.op = "Inl" -> x >= y
              [] OTHER -> x <= y
        check(b) ==
            IF ~b.ok THEN BoolErr(b.err)
            ELSE BoolOk(compare(ToInt(o.t, Num(o.t, b.x)), ToInt(o.t, Num(o.t, b.y))))
    IN check(bin_values(s, o, o.t))

\* exec_ifa .. exec_inx
bit_test(s, o) ==
    LET combine(x, y) ==
            CASE o.op \in {"Ifa", "Ina"} -> BitAnd(x, y)
              [] o.op \in {"Ifo", "Ino"} -> BitOr(x, y)
              [] OTHER -> BitXor(x, y)
        check(b) ==
            IF ~b.ok THEN BoolErr(b.err)
            ELSE BoolOk(IF o.op \in {"Ifa", "Ifo", "Ifx"} THEN combine(b.x, b.y) # 0
                        ELSE combine(b.x, b.y) = 0)
    IN check(bin_values(s, o, o.t))

\* a Cmp whose addresses are taken in the current frame
cmp_test_in_frame(s, o) ==
    LET check(a, b, size, c) ==
            IF ~a.ok THEN BoolErr(a.err)
            ELSE IF ~b.ok THEN BoolErr(b.err)
            ELSE IF ~size.ok THEN BoolErr(size.err)
            ELSE IF ~c.ok THEN BoolErr(c.err)
            ELSE mem_compare(s.stack, wadd(c.call.base_ptr, a.val),
                             wadd(c.call.base_ptr, b.val), size.val)
    IN check(get_val(s, o.x, "Uw"), get_val(s, o.y, "Uw"), get_val(s, o.z, "Uw"),
             current_call(s))

\* the Cmp arm of execute up to its test
cmp_test(s, o) ==
    LET check(a, b, size) ==
            IF ~a.ok THEN BoolErr(a.err)
            ELSE IF ~b.ok THEN BoolErr(b.err)
            ELSE IF ~size.ok THEN BoolErr(size.err)
            ELSE mem_compare(s.stack, a.val, b.val, size.val)
    IN check(get_val(s, o.x, "Uw"), get_val(s, o.y, "Uw"), get_val(s, o.z, "Uw"))

\* the tests with the bitwise ones taking floats like the others
test_bits_on_floats(s, o) ==
    CASE o.op \in UnConditionals -> un_test(s, o)
      [] o.op \in BinConditionals -> bin_test(s, o)
      [] o.op \in BitConditionals -> bit_test(s, o)
      [] OTHER -> cmp_test(s, o)

\* the test of a conditional op
test(s, o) ==
    CASE o.op \in UnConditionals -> un_test(s, o)
      [] o.op \in BinConditionals -> bin_test(s, o)
      [] o.op \in BitConditionals ->
            IF IsFloat(o.t) THEN BoolErr(incorrect_operation(s)) ELSE bit_test(s, o)
      [] OTHER -> cmp_test(s, o)

-----------------------------------------------------------------------------
(* execute *)

Exec(s, res) == [s |-> s, res |-> res]

\* the arms that end in Ok(ExecutionSuccess::Ok) and take the trailing PC += 1
advance(r) ==
    IF r.ok THEN Exec([r.s EXCEPT !.pc = wadd(r.s.pc, 1)], ExOk)
    ELSE Exec(r.s, ExErr(r.err))

\* the arms that return early with Ok(ExecutionSuccess::Ok)
stay(r) == IF r.ok THEN Exec(r.s, ExOk) ELSE Exec(r.s, ExErr(r.err))

\* End and Slp arms that return before the trailing PC += 1
terminal_returns_early(s, o) ==
    LET finish(v) ==
            IF ~v.ok THEN Exec(s, ExErr(v.err))
            ELSE Exec(s, IF o.op = "End" THEN ExEnd(v.val) ELSE ExSleep(v.val))
    IN finish(get_val(s, o.x, "Uw"))

\* the End and Slp arms: the value is read, the result falls through to the
\* trailing PC += 1
terminal(s, o) ==
    LET finish(v) ==
            IF ~v.ok THEN Exec(s, ExErr(v.err))
            ELSE Exec([s EXCEPT !.pc = wadd(s.pc, 1)],
                      IF o.op = "End" THEN ExEnd(v.val) ELSE ExSleep(v.val))
    IN finish(get_val(s, o.x, "Uw"))

\* the conditional arms
conditional(s, o) ==
    LET branch(c) ==
            IF ~c.ok THEN Exec(s, ExErr(c.err))
            ELSE IF c.val THEN advance(StOk(s))
            ELSE stay(pass_condition(s))
    IN branch(test(s, o))

\* a Go arm that falls through to the PC += 1 after the match
go_then_advances(s, o) ==
    LET jump(v) ==
            IF ~v.ok THEN Exec(s, ExErr(v.err))
            ELSE Exec([s EXCEPT !.pc = (v.val + 1) % WordMod], ExOk)
    IN jump(get_val(s, o.x, "Uw"))

\* the Go arm
go(s, o) ==
    LET jump(v) ==
            IF ~v.ok THEN Exec(s, ExErr(v.err))
            ELSE Exec([s EXCEPT !.pc = v.val], ExOk)
    IN jump(get_val(s, o.x, "Uw"))

\* the App arm
exec_app(s, o) ==
    LET push(v) == IF ~v.ok THEN Exec(s, ExErr(v.err)) ELSE advance(app(s, v.val))
    IN push(get_val(s, o.x, "Uw"))

\* the Clf arm
exec_clf(s, o) ==
    LET enter(v) == IF ~v.ok THEN Exec(s, ExErr(v.err)) ELSE stay(clf(s, v.val))
    IN enter(get_val(s, o.x, "Uw"))

\* a Ret arm that pops the call record although the value was not returned
exec_ret_pops_on_error(s, o) ==
    LET leave(r) == IF ~r.ok THEN Exec(ret(r.s).s, ExErr(r.err)) ELSE stay(ret(r.s))
    IN IF o.x # Emp THEN leave(set_ret(s, o, o.t)) ELSE stay(ret(s))

\* the Ret arm
exec_ret(s, o) ==
    LET leave(r) == IF ~r.ok THEN Exec(r.s, ExErr(r.err)) ELSE stay(ret(r.s))
    IN IF o.x # Emp THEN leave(set_ret(s, o, o.t)) ELSE stay(ret(s))

\* an In arm whose flag says that a byte was read whatever the read yields
exec_in_flag_set(s, o) ==
    LET value(w, l, rd) ==
            IF ~w.ok THEN Exec(w.s, ExErr(w.err))
            ELSE advance(set_val(w.s, l, "U8", rd.byte))
        flag(s1, ops, rd) ==
            IF ~ops.ok THEN Exec(s1, ExErr(ops.err))
            ELSE value(IF ops.y # Emp THEN set_val(s1, ops.y, "U8", 1) ELSE StOk(s1),
                       ops.x, rd)
        operands(s1, rd) == flag(s1, read_bin_operands(s1, o), rd)
        read(rd) ==
            IF ~rd.ok THEN Exec(s, ExErr(rd.err))
            ELSE operands([s EXCEPT !.files = rd.files], rd)
    IN read(files_read(s.files))

\* the In arm: the flag is written to the second operand, then the byte to
\* the first
exec_in(s, o) ==
    LET value(w, l, rd) ==
            IF ~w.ok THEN Exec(w.s, ExErr(w.err))
            ELSE advance(set_val(w.s, l, "U8", rd.byte))
        flag(s1, ops, rd) ==
            IF ~ops.ok THEN Exec(s1, ExErr(ops.err))
            ELSE value(IF ops.y # Emp
                       THEN set_val(s1, ops.y, "U8", IF rd.some THEN 1 ELSE 0)
                       ELSE StOk(s1),
                       ops.x, rd)
        operands(s1, rd) == flag(s1, read_bin_operands(s1, o), rd)
        read(rd) ==
            IF ~rd.ok THEN Exec(s, ExErr(rd.err))
            ELSE operands([s EXCEPT !.files = rd.files], rd)
    IN read(files_read(s.files))

\* the closures of exec_and, exec_or and exec_xor
bit_closure(op) == CASE op = "And" -> "and" [] op = "Or" -> "or" [] OTHER -> "xor"

\* the match of execute on the op
execute_match(s, o) ==
    CASE o.op = "Nop" -> advance(StOk(s))
      [] o.op \in {"End", "Slp"} -> terminal(s, o)
      [] o.op = "Set" ->
            advance(update_bin(s, o, o.t, [f |-> "set", guarded |-> FALSE]))
      [] o.op = "Add" ->
            advance(update_bin(s, o, o.t, [f |-> "add", guarded |-> FALSE]))
      [] o.op = "Sub" ->
            advance(update_bin(s, o, o.t, [f |-> "sub", guarded |-> FALSE]))
      [] o.op = "Mul" ->
            advance(update_bin(s, o, o.t, [f |-> "mul", guarded |-> FALSE]))
      [] o.op = "Div" -> advance(update_bin_division(s, o, o.t, "div"))
      [] o.op = "Mod" -> advance(update_bin_division(s, o, o.t, "rem"))
      [] o.op = "Inc" -> advance(update_un(s, o, o.t, "inc"))
      [] o.op = "Dec" -> advance(update_un(s, o, o.t, "dec"))
      [] o.op = "Neg" -> advance(update_un(s, o, o.t, "neg"))
      [] o.op \in {"Shl", "Shr"} ->
            IF IsFloat(o.t) THEN Exec(s, ExErr(incorrect_operation(s)))
            ELSE advance(exec_shift(s, o, o.t))
      [] o.op \in {"And", "Or", "Xor"} ->
            IF IsFloat(o.t) THEN Exec(s, ExErr(incorrect_operation(s)))
            ELSE advance(update_bin(s, o, o.t, [f |-> bit_closure(o.op),
                                                guarded |-> FALSE]))
      [] o.op = "Not" ->
            IF IsFloat(o.t) THEN Exec(s, ExErr(incorrect_operation(s)))
            ELSE advance(update_un(s, o, o.t, "not"))
      [] o.op = "Go" -> go(s, o)
      [] is_conditional(o) -> conditional(s, o)
      [] o.op = "App" -> exec_app(s, o)
      [] o.op = "Par" -> advance(exec_par(s, o, o.t))
      [] o.op = "Clf" -> exec_clf(s, o)
      [] o.op = "In" -> exec_in(s, o)
      [] OTHER -> exec_ret(s, o)

\* let op = self.current_op()?, then the match
execute_op(s, c) ==
    IF ~c.ok THEN Exec(s, ExErr(c.err)) ELSE execute_match(s, c.op)

\* Executor::execute
execute(s) == execute_op(s, current_op(s))

-----------------------------------------------------------------------------
(* The decoder: a reader is the sequence of the bytes not yet read *)

\* Result<T, DecodeError> of a read from the byte source: rest is the source
\* afterwards, also when the read failed
DOk(v, rest) == [ok |-> TRUE, err |-> "none", val |-> v, rest |-> rest]
DErr(e, rest) == [ok |-> FALSE, err |-> e, val |-> 0, rest |-> rest]

\* no decode_op yet
NotDecoded == [by |-> "new", input |-> <<>>, res |-> DErr("none", <<>>)]

\* op_codes: the fixed table of the 46 opcodes, the code of an op is its
\* place in the table
op_codes ==
    <<"Nop", "End", "Slp", "Set", "Cnv", "Add", "Sub", "Mul", "Div", "Mod",
      "Shl", "Shr", "And", "Or", "Xor", "Not", "Neg", "Inc", "Dec", "Go",
      "Ift", "Iff", "Ife", "Ifl", "Ifg", "Ine", "Inl", "Ing", "Ifa", "Ifo",
      "Ifx", "Ina", "Ino", "Inx", "App", "Par", "Clf", "Ret", "In", "Out",
      "Fls", "Sfd", "Gfd", "Zer", "Cmp", "Cpy">>

\* OpType::new: the tag of a type
op_types ==
    <<"U8", "I8", "U16", "I16", "U32", "I32", "U64", "I64", "Uw", "Iw",
      "F32", "F64">>

op_type_new(n) ==
    IF n < Len(op_types) THEN [ok |-> TRUE, val |-> op_types[n + 1]]
    ELSE [ok |-> FALSE, val |-> "U8"]

\* Variant::new
variant_new(n) == <<"None", "First", "Second", "Both">>[n + 1]

\* a word of the decoder in two halves of 16 bits
Word(lo, hi) == [lo |-> lo, hi |-> hi]

\* a conversion that takes the first byte of the buffer as the highest
from_be_bytes(buf) == Word(buf[4] + 256 * buf[3], buf[2] + 256 * buf[1])

\* UWord::from_le_bytes: the bytes above the fourth of the buffer are zero
\* for every operand
from_le_bytes(buf) == Word(buf[1] + 256 * buf[2], buf[3] + 256 * buf[4])

\* Operand::Emp beside operands whose payloads are words of the decoder
NoOperand == [k |-> "Emp", v |-> Word(0, 0)]

\* Operand::new(value, kind)
operand_kinds == <<"Loc", "Ind", "Ret", "Val", "Ref", "Glb", "Emp">>

operand_new(value, kind) ==
    IF kind >= Len(operand_kinds) THEN [ok |-> FALSE, val |-> NoOperand]
    ELSE IF operand_kinds[kind + 1] = "Emp" THEN [ok |-> TRUE, val |-> NoOperand]
    ELSE [ok |-> TRUE, val |-> [k |-> operand_kinds[kind + 1], v |-> value]]

\* ReadU8::read_u8
read_u8(bs) ==
    IF Len(bs) = 0 THEN DErr("UnexpectedEnd", bs) ELSE DOk(Head(bs), Tail(bs))

\* an operand decoder that takes the size bits for the number of value bytes
decode_operand_size_bits(bs) ==
    LET made(o, rest) ==
            IF o.ok THEN DOk(o.val, rest) ELSE DErr("UndefinedOperation", rest)
        long(meta, rest, n) ==
            IF Len(rest) < n THEN DErr("UnexpectedEnd", <<>>)
            ELSE made(operand_new(from_le_bytes(SubSeq(rest, 1, n) \o Zeros(4 - n)),
                                  (meta \div 16) % 8),
                      SubSeq(rest, n + 1, Len(rest)))
        first(m) ==
            IF ~m.ok THEN m
            ELSE IF m.val < 128 THEN DOk(Loc(Word(m.val, 0)), m.rest)
            ELSE long(m.val, m.rest, m.val % 4)
    IN first(read_u8(bs))

\* impl Decode<()> for Operand
decode_operand(bs) ==
    LET made(o, rest) ==
            IF o.ok THEN DOk(o.val, rest) ELSE DErr("UndefinedOperation", rest)
        long(meta, rest, n) ==
            IF Len(rest) < n THEN DErr("UnexpectedEnd", <<>>)
            ELSE made(operand_new(from_le_bytes(SubSeq(rest, 1, n) \o Zeros(4 - n)),
                                  (meta \div 16) % 8),
                      SubSeq(rest, n + 1, Len(rest)))
        first(m) ==
            IF ~m.ok THEN m
            ELSE IF m.val < 128 THEN DOk(Loc(Word(m.val, 0)), m.rest)
            ELSE long(m.val, m.rest, (m.val % 4) + 1)
    IN first(read_u8(bs))

\* decode(bytes)? for each of n operands in turn
RECURSIVE decode_operands(_, _)
decode_operands(bs, n) ==
    LET more(x, xs) ==
            IF ~xs.ok THEN xs ELSE DOk(<<x>> \o xs.val, xs.rest)
        first(x) ==
            IF ~x.ok THEN x ELSE more(x.val, decode_operands(x.rest, n - 1))
    IN IF n = 0 THEN DOk(<<>>, bs) ELSE first(decode_operand(bs))

\* impl Decode<()> for (OpType, Variant)
decode_type_variant(bs) ==
    LET typed(t, meta, rest) ==
            IF ~t.ok THEN DErr("UndefinedOperation", rest)
            ELSE DOk([t |-> t.val, var |-> variant_new(meta \div 64)], rest)
        first(m) ==
            IF ~m.ok THEN m ELSE typed(op_type_new(m.val % 16), m.val, m.rest)
    IN first(read_u8(bs))

\* impl Decode<()> for OpType
decode_type(bs) ==
    LET typed(t, rest) ==
            IF ~t.ok THEN DErr("UndefinedOperation", rest) ELSE DOk(t.val, rest)
        first(m) == IF ~m.ok THEN m ELSE typed(op_type_new(m.val % 16), m.rest)
    IN first(read_u8(bs))

\* impl Decode<()> for (OpType, OpType)
decode_types(bs) ==
    LET typed(t, u, rest) ==
            IF ~t.ok \/ ~u.ok THEN DErr("UndefinedOperation", rest)
            ELSE DOk([t |-> t.val, u |-> u.val], rest)
        first(m) ==
            IF ~m.ok THEN m
            ELSE typed(op_type_new(m.val % 16), op_type_new(m.val \div 16), m.rest)
    IN first(read_u8(bs))

\* a UnOp or BinOp: the operands, the variant and the offset
Operands(var, x, y, off) == [var |-> var, x |-> x, y |-> y, off |-> off]

\* a UnOp decoder that looks at the variant before it reads the operand
decode_un_op_variant_first(bs, var) ==
    LET with(x, o) ==
            IF ~o.ok THEN o ELSE DOk(Operands(var, x, NoOperand, o.val), o.rest)
        new(x) ==
            IF ~x.ok THEN x
            ELSE CASE var = "None" -> DOk(Operands(var, x.val, NoOperand, NoOperand), x.rest)
                   [] OTHER -> with(x.val, decode_operand(x.rest))
    IN IF var \in {"Second", "Both"} THEN DErr("IncorrectVariant", bs)
       ELSE new(decode_operand(bs))

\* impl Decode<Variant> for UnOp
decode_un_op(bs, var) ==
    LET with(x, o) ==
            IF ~o.ok THEN o ELSE DOk(Operands(var, x, NoOperand, o.val), o.rest)
        new(x) ==
            IF ~x.ok THEN x
            ELSE CASE var = "None" -> DOk(Operands(var, x.val, NoOperand, NoOperand), x.rest)
                   [] var = "First" -> with(x.val, decode_operand(x.rest))
                   [] OTHER -> DErr("IncorrectVariant", x.rest)
    IN new(decode_operand(bs))

\* impl Decode<Variant> for BinOp
decode_bin_op(bs, var) ==
    LET with(x, y, o) ==
            IF ~o.ok THEN o ELSE DOk(Operands(var, x, y, o.val), o.rest)
        new(xy) ==
            IF ~xy.ok THEN xy
            ELSE IF var = "None"
            THEN DOk(Operands(var, xy.val[1], xy.val[2], NoOperand), xy.rest)
            ELSE with(xy.val[1], xy.val[2], decode_operand(xy.rest))
    IN new(decode_operands(bs, 2))

\* the opcodes by the shape of their arm in decode_op
PlainCodes == {"Nop", "Fls"}
OperandCodes == {"End", "Slp", "Go", "App", "Clf", "Sfd", "Gfd"}
BinCodes ==
    {"Set", "Add", "Sub", "Mul", "Div", "Mod", "And", "Or", "Xor",
     "Ife", "Ifl", "Ifg", "Ine", "Inl", "Ing",
     "Ifa", "Ifo", "Ifx", "Ina", "Ino", "Inx"}
ShiftCodes == {"Shl", "Shr"}
UnCodes == {"Not", "Neg", "Inc", "Dec", "Ift", "Iff", "Par", "Ret"}
TripleCodes == {"Cmp", "Cpy"}

\* the arms of decode_op, by what follows the opcode
decode_arm(name, bs) ==
    LET op1(xs) ==
            IF ~xs.ok THEN xs ELSE DOk(MkOp(name, "None", xs.val[1], NoOperand, NoOperand, NoOperand,
                          "U8", "U8"), xs.rest)
        op2(xs, t, u) ==
            IF ~xs.ok THEN xs
            ELSE DOk(MkOp(name, "None", xs.val[1], xs.val[2], NoOperand, NoOperand,
                          t, u),
                     xs.rest)
        op3(xs) ==
            IF ~xs.ok THEN xs
            ELSE DOk(MkOp(name, "None", xs.val[1], xs.val[2], xs.val[3], NoOperand,
                          "U8", "U8"), xs.rest)
        made(o, t) ==
            IF ~o.ok THEN o
            ELSE DOk(MkOp(name, o.val.var, o.val.x, o.val.y, NoOperand, o.val.off,
                          t, "U8"), o.rest)
        bin(m) ==
            IF ~m.ok THEN m
            ELSE made(decode_bin_op(m.rest, m.val.var),
                      IF name = "In" THEN "U8" ELSE m.val.t)
        un(m) ==
            IF ~m.ok THEN m
            ELSE made(decode_un_op(m.rest, m.val.var),
                      IF name = "Out" THEN "U8" ELSE m.val.t)
        shift(t) ==
            IF ~t.ok THEN t ELSE op2(decode_operands(t.rest, 2), t.val, "U8")
        cnv(m) ==
            IF ~m.ok THEN m
            ELSE op2(decode_operands(m.rest, 2), m.val.t, m.val.u)
    IN CASE name \in PlainCodes ->
                DOk(MkOp(name, "None", NoOperand, NoOperand, NoOperand, NoOperand,
                         "U8", "U8"), bs)
         [] name \in OperandCodes -> op1(decode_operands(bs, 1))
         [] name \in BinCodes \cup {"In"} -> bin(decode_type_variant(bs))
         [] name \in UnCodes \cup {"Out"} -> un(decode_type_variant(bs))
         [] name \in ShiftCodes -> shift(decode_type(bs))
         [] name = "Cnv" -> cnv(decode_types(bs))
         [] name = "Zer" -> op2(decode_operands(bs, 2), "U8", "U8")
         [] OTHER -> op3(decode_operands(bs, 3))

\* decode_op that leaves the byte of an unknown opcode in the source
decode_op_keeps_byte(bs) ==
    LET first(b) ==
            IF ~b.ok THEN b
            ELSE IF b.val < Len(op_codes) THEN decode_arm(op_codes[b.val + 1], b.rest)
            ELSE DErr("UnknownOpCode", bs)
    IN first(read_u8(bs))

\* decode_op
decode_op(bs) ==
    LET first(b) ==
            IF ~b.ok THEN b
            ELSE IF b.val < Len(op_codes) THEN decode_arm(op_codes[b.val + 1], b.rest)
            ELSE DErr("UnknownOpCode", b.rest)
    IN first(read_u8(bs))

-----------------------------------------------------------------------------
(* Function tables the executor is run on *)

Fn(frame_size, program) == [frame_size |-> frame_size, program |-> program]

\* executor_div: the last two divide by zero
DivTable ==
    <<Fn(4, <<Bin("Set", Loc(0), Val(8), "I16"),
              Bin("Set", Loc(2), Val(5), "I16"),
              Bin("Div", Loc(0), Val(2), "I16"),
              Bin("Div", Loc(2), Val(2), "I16"),
              Bin("Div", Loc(0), Val(0), "I16")>>)>>

\* executor_set: the second op writes to an immediate
SetTable ==
    <<Fn(2, <<Bin("Set", Loc(0), Val(12), "I16"),
              Bin("Set", Val(0), Val(12), "I16"),
              Bin("Set", Loc(1), Val(32), "I8")>>)>>

\* executor_iff
IffTable ==
    <<Fn(1, <<Bin("Set", Loc(0), Val(1), "U8"),
              Un("Iff", Loc(0), "U8"),
              Bin("Set", Loc(0), Val(2), "U8")>>)>>

\* a chain of guards in front of one body: the second guard fails
ChainTable ==
    <<Fn(2, <<Un("Iff", Loc(0), "U8"),
              Un("Ift", Loc(0), "U8"),
              Bin("Ife", Loc(0), Loc(1), "U8"),
              Un("Inc", Loc(1), "U8"),
              Op1("End", Loc(1))>>)>>

\* executor_cmp
CmpTable ==
    <<Fn(4, <<Bin("Set", Loc(0), Val(255), "U8"),
              Bin("Set", Loc(1), Val(255), "U8"),
              Op3("Cmp", Val(0), Val(1), Val(1)),
              Bin("Set", Loc(2), Val(1), "U8"),
              Op3("Cmp", Val(0), Val(2), Val(1)),
              Bin("Set", Loc(3), Val(1), "U8"),
              Op1("Slp", Val(4))>>)>>

\* executor_call_fn
CallTable ==
    <<Fn(2, <<Op1("App", Val(1)),
              Un("Par", Val(2), "I16"),
              Op1("Clf", Val(0)),
              Un("Ret", Emp, "U8")>>),
      Fn(4, <<Bin("Set", Loc(2), Val(3), "I16"),
              Bin("Add", RetO(0), Loc(0), "I16"),
              Bin("Add", RetO(0), Loc(2), "I16"),
              Un("Ret", Emp, "U8")>>)>>

\* executor_glb
GlbTable ==
    <<Fn(0, <<Bin("Set", Glb(1), Val(12), "U8"),
              Op1("App", Val(1)),
              Un("Par", Val(6), "U8"),
              Op1("Clf", Val(0)),
              Un("Ret", Emp, "U8")>>),
      Fn(1, <<Un("Inc", Loc(0), "U8"),
              Bin("Set", Glb(0), Loc(0), "U8"),
              Un("Ret", Emp, "U8")>>)>>

\* executor_gcd in small: two arguments of different types, a returned value
ArgsTable ==
    <<Fn(2, <<Bin("Set", Loc(0), Val(300), "U16"),
              Op1("App", Val(1)),
              Un("Par", Loc(0), "U16"),
              Un("Par", Val(9), "U8"),
              Op1("Clf", Ref(0)),
              Op1("End", Loc(0))>>),
      Fn(3, <<Bin("Mod", Loc(0), Loc(2), "U8"),
              Un("Ret", Loc(0), "U16")>>)>>

\* a callee that calls in turn, and a caller whose Clf is its last op
NestTable ==
    <<Fn(1, <<Op1("App", Val(1)),
              Un("Par", Val(1), "U8"),
              Op1("Clf", Val(0))>>),
      Fn(1, <<Op1("App", Val(2)),
              Un("Par", Loc(0), "U8"),
              Op1("Clf", Val(1)),
              Un("Ret", Loc(0), "U8")>>),
      Fn(2, <<Un("Inc", Loc(0), "U8"),
              Un("Ret", Loc(0), "U8")>>)>>

\* a function that calls itself, with wrapping arithmetic on the way
SelfTable ==
    <<Fn(2, <<Bin("Add", Loc(1), Val(128), "I8"),
              Bin("Ifl", Loc(1), Loc(0), "I8"),
              Op1("App", Val(0)),
              Un("Par", Loc(1), "I8"),
              Op1("Clf", Val(0)),
              Bin("Mod", Loc(0), Val(0), "I8"),
              Nop>>)>>

\* calls that cannot be made, and a Ret between App and Clf
OddTable ==
    <<Fn(2, <<Un("Ift", Loc(0), "U8"),
              Op1("App", Val(2)),
              Op1("App", Val(1)),
              Un("Ret", Emp, "U8")>>),
      Fn(3, <<Op1("App", Val(0)),
              Op1("Clf", Val(0)),
              Un("Ret", Emp, "U8")>>)>>

\* a callee whose frame does not fit once the entry frame is on a stack the
\* driver had expanded
TightFrame == StackLimit - 3

TightTable ==
    <<Fn(2, <<Op1("Clf", Val(0)),
              Un("Ret", Emp, "U8")>>),
      Fn(TightFrame, <<Un("Ret", Emp, "U8")>>)>>

\* an App of the function table's length, after an App that succeeded
UnknownTable ==
    <<Fn(1, <<Op1("App", Val(0)),
              Op1("App", Val(1))>>)>>

\* one function per operand that cannot be used as it stands: the driver
\* picks the function with call()
OperandTable ==
    <<Fn(3, <<Bin("Set", Val(0), Loc(9), "U8")>>),
      Fn(3, <<Bin("Div", Val(8), Val(0), "U8")>>),
      Fn(3, <<Un("Inc", Ref(1), "U8")>>),
      Fn(3, <<Bin("Set", Loc(0), Emp, "U8")>>),
      Fn(3, <<Un("Par", Emp, "U8")>>),
      Fn(3, <<UnFirst("Inc", Ind(WordMod - 1), Val(1), "U8")>>),
      Fn(3, <<Un("Inc", Ind(1), "U8"),
              Bin("Set", Loc(0), Ind(0), "U8")>>),
      Fn(3, <<Bin("Set", Ind(0), Val(1), "U8")>>)>>

\* two reads from the current file: the second one writes its flag and then
\* fails on its first operand
InTable ==
    <<Fn(2, <<Bin("In", Loc(0), Loc(1), "U8"),
              Bin("In", Ind(0), Loc(0), "U8")>>)>>

\* ops with an offset: the index at Loc(4) displaces the first operand, the
\* second, both, the operand of a unary op; the last two wrap around the word
OffsetTable ==
    <<Fn(6, <<Bin("Set", Loc(4), Val(2), "Uw"),
              BinVar("Set", "First", Loc(0), Val(7), Loc(4), "U8"),
              BinVar("Set", "Both", Loc(1), Loc(0), Loc(4), "U8"),
              BinVar("Set", "Second", Loc(0), Loc(0), Loc(4), "U8"),
              UnFirst("Inc", Loc(0), Loc(4), "U8"),
              BinVar("Set", "Second", Loc(1), Val(3), Val(WordMod - 1), "U8"),
              BinVar("Set", "First", Loc(3), Val(1), Val(WordMod - 2), "U8"),
              BinVar("Set", "Both", Loc(0), Loc(1), Loc(8), "U8")>>)>>

\* the ops that are not defined on floats, each alone in a function, their
\* first operand a null pointer
BitwiseOps(t) ==
    <<Bin("Shl", Ind(0), Val(1), t), Bin("Shr", Ind(0), Val(1), t),
      Bin("And", Ind(0), Val(1), t), Bin("Or", Ind(0), Val(1), t),
      Bin("Xor", Ind(0), Val(1), t), Un("Not", Ind(0), t),
      Bin("Ifa", Ind(0), Val(1), t), Bin("Ifo", Ind(0), Val(1), t),
      Bin("Ifx", Ind(0), Val(1), t), Bin("Ina", Ind(0), Val(1), t),
      Bin("Ino", Ind(0), Val(1), t), Bin("Inx", Ind(0), Val(1), t)>>

BitwiseFns(t) == [i \in 1..Len(BitwiseOps(t)) |-> Fn(1, <<BitwiseOps(t)[i], Nop>>)]

\* a float in memory through Inc, Dec, Neg and every test that takes floats;
\* each test passes, so every op runs
FloatProgram(t) ==
    <<Un("Inc", Loc(0), t), Un("Ift", Loc(0), t),
      Un("Neg", Loc(0), t), Bin("Ifl", Loc(0), Val(0), t),
      Un("Dec", Loc(0), t), Bin("Ine", Loc(0), Val(2), t),
      Un("Neg", Loc(0), t), Bin("Ife", Loc(0), Val(2), t),
      Bin("Ifg", Loc(0), Val(1), t), Bin("Inl", Loc(0), Val(2), t),
      Bin("Ing", Loc(0), Val(2), t),
      Un("Dec", Loc(0), t), Un("Dec", Loc(0), t), Un("Iff", Loc(0), t),
      Un("Neg", Loc(0), t), Un("Iff", Loc(0), t), Nop>>

\* the tests on immediates
FloatTests(t) ==
    <<Un("Ift", Val(1), t), Un("Iff", Val(0), t),
      Bin("Ife", Val(2), Val(2), t), Bin("Ifl", Val(1), Val(2), t),
      Bin("Ifg", Val(2), Val(1), t), Bin("Ine", Val(1), Val(2), t),
      Bin("Inl", Val(2), Val(2), t), Bin("Ing", Val(2), Val(2), t)>>

F32Table == BitwiseFns("F32") \o <<Fn(4, FloatProgram("F32"))>>

\* an f64 does not fit the stack of the model: Neg, Inc and Dec get as far as
\* the memory
F64Table ==
    BitwiseFns("F64")
        \o <<Fn(4, FloatTests("F64") \o <<Un("Neg", Loc(0), "F64")>>),
              Fn(4, <<Un("Inc", Loc(0), "F64")>>),
              Fn(4, <<Un("Dec", Loc(0), "F64")>>)>>

\* executor_ifa and executor_ina at the width of U16
IfaTable ==
    <<Fn(4, <<Bin("Set", Loc(0), Val(32), "U16"),
              Bin("Set", Loc(2), Val(2), "U16"),
              Bin("Ifa", Loc(0), Loc(2), "U16"),
              Bin("Set", Loc(0), Val(1), "U16")>>)>>

InaTable ==
    <<Fn(4, <<Bin("Set", Loc(0), Val(32), "U16"),
              Bin("Set", Loc(2), Val(2), "U16"),
              Bin("Ina", Loc(0), Loc(2), "U16"),
              Bin("Set", Loc(0), Val(1), "U16")>>)>>

\* every test and its inverse on a byte in memory, a Nop after each
PairTable ==
    <<Fn(1, <<Bin("Set", Loc(0), Val(134), "I8"),
              Un("Ift", Loc(0), "I8"), Nop, Un("Iff", Loc(0), "I8"), Nop,
              Bin("Ife", Loc(0), Val(134), "I8"), Nop,
              Bin("Ine", Loc(0), Val(134), "I8"), Nop,
              Bin("Ifl", Loc(0), Val(6), "I8"), Nop,
              Bin("Inl", Loc(0), Val(6), "I8"), Nop,
              Bin("Ifg", Loc(0), Val(134), "I8"), Nop,
              Bin("Ing", Loc(0), Val(134), "I8"), Nop,
              Bin("Ifa", Loc(0), Val(1), "I8"), Nop,
              Bin("Ina", Loc(0), Val(1), "I8"), Nop,
              Bin("Ifo", Loc(0), Val(0), "I8"), Nop,
              Bin("Ino", Loc(0), Val(0), "I8"), Nop,
              Bin("Ifx", Loc(0), Val(134), "I8"), Nop,
              Bin("Inx", Loc(0), Val(134), "I8"), Nop,
              Nop>>)>>

\* Cmp of bytes that differ from the bytes at the same offsets of a frame
\* above the start of the memory, then of two bytes, then past the memory
AbsCmpTable ==
    <<Fn(3, <<Bin("Set", Loc(0), Val(255), "U8"),
              Op3("Cmp", Val(0), Val(1), Val(1)),
              Bin("Set", Loc(1), Val(255), "U8"),
              Op3("Cmp", Loc(1), Val(1), Val(2)),
              Bin("Set", Loc(2), Val(1), "U8"),
              Op3("Cmp", Val(0), Val(0), Val(0)),
              Nop,
              Op3("Cmp", Val(0), Val(StackLimit), Val(2)),
              Nop>>)>>

\* executor_mul_from_in
MulInTable ==
    <<Fn(3 + WordSize, <<Bin("In", Loc(0), Emp, "U8"),
                         Bin("In", Loc(1), Loc(2), "U8"),
                         Bin("Set", Loc(3), Loc(0), "U8"),
                         Bin("Mul", Loc(3), Loc(1), "U8"),
                         Un("End", Loc(3), "U8")>>)>>

\* reads into bytes that hold something else
EofTable ==
    <<Fn(2, <<Bin("Set", Loc(0), Val(9), "U8"),
              Bin("Set", Loc(1), Val(9), "U8"),
              Bin("In", Loc(0), Emp, "U8"),
              Bin("In", Loc(0), Loc(1), "U8"),
              Bin("In", Loc(1), Emp, "U8")>>)>>

\* executor_add at the width of I8, followed by the other wrapping ops at
\* the edges of their types
ArithTable ==
    <<Fn(4, <<Bin("Add", Loc(0), Val(12), "I8"),
              Bin("Add", Loc(0), Val(WordMod - 1), "I8"),
              Bin("Set", Loc(0), Val(1), "I8"),
              Bin("Add", Loc(0), Val(127), "I8"),
              Un("Neg", Loc(0), "I8"),
              Bin("Mul", Loc(0), Val(3), "I8"),
              Bin("Set", Loc(2), Val(32767), "I16"),
              Bin("Mul", Loc(2), Val(2), "I16"),
              Bin("Sub", Loc(1), Val(1), "U8"),
              Un("Inc", Loc(1), "U8"),
              Un("Dec", Loc(1), "U8"),
              Un("Neg", Loc(2), "U16")>>)>>

\* executor_go: the loop never ends; the frame fills the stack, so that
\* one activation of it runs at a time
GoTable ==
    <<Fn(StackLimit, <<Un("Inc", Loc(0), "U8"),
                       Op1("Go", Val(0))>>)>>

\* Go through a word in memory, then past the end of the program
JumpTable ==
    <<Fn(2, <<Bin("Set", Loc(0), Val(3), "U16"),
              Op1("Go", Loc(0)),
              Bin("Set", Loc(0), Val(9), "U16"),
              Op1("Go", Val(7))>>)>>

TestTables ==
    {DivTable, SetTable, IffTable, ChainTable, CmpTable, CallTable, GlbTable,
     ArgsTable, NestTable, SelfTable, OddTable, TightTable, UnknownTable,
     OperandTable, InTable, ArithTable, GoTable, JumpTable, MulInTable,
     EofTable, OffsetTable, F32Table, F64Table, IfaTable, InaTable,
     PairTable, AbsCmpTable}

\* the ops the generated programs are made of
GenOps ==
    {Bin("Set", Loc(0), Val(7), "U8"),
     Bin("Div", Loc(0), Loc(1), "U8"),
     Op1("Go", Val(1)),
     Un("Iff", Loc(0), "U8"),
     Op1("App", Val(1)),
     Un("Par", Val(5), "U8"),
     Op1("Clf", Ref(1)),
     Un("Ret", Loc(0), "U8")}

MaxGenLen == 2       \* length of the generated programs

GenPrograms == UNION {[1..n -> GenOps] : n \in 1..MaxGenLen}

\* the callee of the generated tables
GenCallee ==
    Fn(2, <<Un("Inc", Loc(0), "U8"),
            Un("Ret", Loc(0), "U8")>>)

GenTables == {<<Fn(2, p), GenCallee>> : p \in GenPrograms}

Tables == TestTables \cup GenTables

\* whether a function table reads from the current file
HasIn(table) ==
    \E f \in 1..Len(table) :
        \E i \in 1..Len(table[f].program) : table[f].program[i].op = "In"

\* the contents of the current file at the start
Inputs == {<<>>, <<7>>, <<3, 4>>}

\* the stack lengths the driver hands over: executor_glb expands the stack
\* before the entry call
EntryLens == {0, 2}

\* the return slots the driver names in call()
RetPtrs == {0}

-----------------------------------------------------------------------------
(* The state machine *)

Init ==
    /\ functions \in Tables
    /\ program_counter = 0
    /\ call_stack = <<>>
    /\ prepared_call = FALSE
    /\ parameter_ptr = 0
    /\ \E n \in EntryLens : stack = Zeros(n)
    /\ files \in (IF HasIn(functions) THEN Inputs ELSE {<<>>})
    /\ last = [by |-> "new", op |-> Nop, id |-> 0, res |-> ExNone,
               top |-> [pre_len |-> 0, activated |-> FALSE, windowed |-> FALSE,
                        clf_pc |-> 0],
               pre |-> [pc |-> 0, cs |-> <<>>, prep |-> FALSE, pp |-> 0,
                        stack |-> stack, files |-> files]]
    /\ ghost = [recs |-> <<>>, entry_len |-> Len(stack), calls |-> 0,
                win |-> [clean |-> FALSE, top |-> FALSE, args |-> <<>>]]
    /\ code = <<>>
    /\ decoded = NotDecoded

\* the executor's fields take the values of the record s
Becomes(s) ==
    /\ program_counter' = s.pc
    /\ call_stack' = s.cs
    /\ prepared_call' = s.prep
    /\ parameter_ptr' = s.pp
    /\ stack' = s.stack
    /\ files' = s.files

\* bookkeeping per call record: the stack length before the record was pushed,
\* whether a Clf has activated it, and for the latest Clf that did, its PC and
\* whether it was an op executed with a prepared call
Recs(s, activates, windowed) ==
    LET kept ==
            IF Len(s.cs) > Len(call_stack)
            THEN Append(ghost.recs, [pre_len |-> Len(stack), activated |-> FALSE,
                                     windowed |-> FALSE, clf_pc |-> 0])
            ELSE SubSeq(ghost.recs, 1, Len(s.cs))
    IN IF activates /\ Len(kept) > 0
       THEN [kept EXCEPT ![Len(kept)].activated = TRUE,
                         ![Len(kept)].windowed = windowed,
                         ![Len(kept)].clf_pc = program_counter]
       ELSE kept

\* bookkeeping of the window App, Par, ..., Par: the arguments passed so far
Window(o, ok) ==
    LET c == current_call(St)
        v == get_un(St, o, o.t)
    IN
    CASE o.op = "App" ->
            [clean |-> ok,
             top |-> c.ok /\ ~prepared_call
                     /\ c.call.base_ptr + FunctionOf(c.call).frame_size = Len(stack),
             args |-> <<>>]
      [] o.op = "Par" /\ ok ->
            [ghost.win EXCEPT !.args = Append(@, [t |-> o.t, val |-> v.val])]
      [] o.op = "Clf" -> ghost.win
      [] OTHER -> [ghost.win EXCEPT !.clean = FALSE]

\* the bookkeeping of the record on top of the call stack
TopRec ==
    IF Len(ghost.recs) > 0 THEN ghost.recs[Len(ghost.recs)]
    ELSE [pre_len |-> 0, activated |-> FALSE, windowed |-> FALSE, clf_pc |-> 0]

\* the driver calls call(id, rp)
CallOf(id, rp) ==
    \E r \in {call(St, id, rp)} :
        /\ ghost.calls < MaxCalls
        /\ Len(r.s.cs) <= MaxDepth
        /\ Becomes(r.s)
        /\ last' = [by |-> "call", op |-> Nop, id |-> id, pre |-> St,
                    top |-> TopRec,
                    res |-> IF r.ok THEN ExOk ELSE ExErr(r.err)]
        /\ ghost' = [ghost EXCEPT !.recs = Recs(r.s, r.ok, FALSE),
                                  !.calls = @ + 1,
                                  !.win.clean = FALSE]
        /\ UNCHANGED <<functions, code, decoded>>

\* the driver calls call(function_id, ret_val_ptr)
Call == \E id \in 0..Len(functions), rp \in RetPtrs : CallOf(id, rp)

\* the driver calls execute()
Execute ==
    \E r \in {execute(St)}, c \in {current_op(St)} :
        /\ Len(r.s.cs) <= MaxDepth
        /\ r.s.pp <= MaxParamPtr
        /\ Becomes(r.s)
        /\ last' = [by |-> "execute", op |-> c.op, id |-> 0, pre |-> St,
                    top |-> TopRec, res |-> r.res]
        /\ ghost' = [ghost EXCEPT
                       !.recs = Recs(r.s, c.ok /\ c.op.op = "Clf" /\ r.res.kind = "Ok",
                                     prepared_call),
                       !.win = IF c.ok THEN Window(c.op, r.res.kind = "Ok")
                               ELSE [@ EXCEPT !.clean = FALSE]]
        /\ UNCHANGED <<functions, code, decoded>>

Next == Call \/ Execute

Spec == Init /\ [][Next]_vars

-----------------------------------------------------------------------------
(* The driver of executor_gcd on the gcd program *)

MaxGcdArg == 5       \* the arguments of gcd run from 0 to this

\* executor_gcd at the width of U8, for the arguments x and y
GcdTable(x, y) ==
    <<Fn(3, <<Bin("Set", Loc(1), Val(x), "U8"),
              Bin("Set", Loc(2), Val(y), "U8"),
              Op1("App", Val(1)),
              Un("Par", Loc(1), "U8"),
              Un("Par", Loc(2), "U8"),
              Op1("Clf", Val(0)),
              Op1("End", Val(0))>>),
      Fn(3, <<Bin("Set", Loc(2), Loc(0), "U8"),
              Bin("Mod", Loc(2), Loc(1), "U8"),
              Bin("Set", Loc(0), Loc(1), "U8"),
              Bin("Set", Loc(1), Loc(2), "U8"),
              Un("Ift", Loc(1), "U8"),
              Op1("Go", Val(0)),
              Un("Ret", Loc(0), "U8")>>)>>

\* the arguments of the test, 234 with a second one that fits a byte, and
\* all small ones
GcdTables ==
    {GcdTable(x, y) : x \in 0..MaxGcdArg, y \in 1..MaxGcdArg}
        \cup {GcdTable(234, 91), GcdTable(91, 234)}

GcdInit ==
    /\ functions \in GcdTables
    /\ program_counter = 0
    /\ call_stack = <<>>
    /\ prepared_call = FALSE
    /\ parameter_ptr = 0
    /\ stack = <<>>
    /\ files = <<>>
    /\ last = [by |-> "new", op |-> Nop, id |-> 0, res |-> ExNone,
               top |-> [pre_len |-> 0, activated |-> FALSE, windowed |-> FALSE,
                        clf_pc |-> 0],
               pre |-> [pc |-> 0, cs |-> <<>>, prep |-> FALSE, pp |-> 0,
                        stack |-> stack, files |-> files]]
    /\ ghost = [recs |-> <<>>, entry_len |-> 0, calls |-> 0,
                win |-> [clean |-> FALSE, top |-> FALSE, args |-> <<>>]]
    /\ code = <<>>
    /\ decoded = NotDecoded

\* exe.call(0, 0).unwrap()
GcdCall == last.by = "new" /\ CallOf(0, 0)

\* while let Executed::Ok(ExecutionSuccess::Ok) = executed { executed = exe.execute(); }
GcdExecute == last.by # "new" /\ last.res = ExOk /\ Execute

GcdNext == GcdCall \/ GcdExecute

GcdSpec == GcdInit /\ [][GcdNext]_vars

-----------------------------------------------------------------------------
(* The decoder on byte streams *)

MaxTailLen == 3      \* length of the byte streams that follow an opcode

\* the bytes the streams are made of: short operands, long operands of one
\* and two value bytes, an operand of an undefined kind, a byte above every
\* opcode
TailBytes == {0, 12, 144, 193, 240}

Tails == UNION {[1..n -> TailBytes] : n \in 0..MaxTailLen}

\* first bytes that are no opcode
UnknownCodes == {46, 47, 64, 128, 254, 255}

OpCode(name) == CHOOSE c \in 0..(Len(op_codes) - 1) : op_codes[c + 1] = name
TypeTag(t) == CHOOSE n \in 0..(Len(op_types) - 1) : op_types[n + 1] = t
VariantTag(var) == CASE var = "None" -> 0 [] var = "First" -> 1
                     [] var = "Second" -> 2 [] OTHER -> 3

\* the meta byte of the wire format: type tag in bits 0-3, variant in bits 6-7
Meta(t, var) == TypeTag(t) + 64 * VariantTag(var)

\* operands and their encodings, those of the tests of the decoder first
Enc(a, bytes) == [a |-> a, bytes |-> bytes]
SampleOperands ==
    {Enc(Loc(Word(12, 0)), <<12>>),
     Enc(Loc(Word(8, 0)), <<129, 8, 0>>),
     Enc(Ind(Word(16, 0)), <<144, 16>>),
     Enc(RetO(Word(8, 0)), <<160, 8>>),
     Enc(Val(Word(5, 0)), <<176, 5>>),
     Enc(Ref(Word(4, 0)), <<195, 4, 0, 0, 0>>),
     Enc(Val(Word(65535, 65535)), <<179, 255, 255, 255, 255>>),
     Enc(Glb(Word(513, 3)), <<210, 1, 2, 3>>),
     Enc(NoOperand, <<224, 7>>)}

FewOperands == {Enc(Loc(Word(127, 0)), <<127>>), Enc(Ref(Word(8, 0)), <<192, 8>>)}

OneOperand == {Enc(Val(Word(5, 0)), <<176, 5>>)}

Variants == {"None", "First", "Second", "Both"}

\* an op and its encoding: opcode, meta byte if any, the operands in turn,
\* then the offset
Encoded(o, bytes) == [op |-> o, bytes |-> bytes]

\* an op without a type and without an offset
Plain(n, x, y, z) == MkOp(n, "None", x, y, z, NoOperand, "U8", "U8")

EncodedBin(names, types, xs, ys, offs) ==
    {Encoded(MkOp(n, var, x.a, y.a, NoOperand,
                  IF var = "None" THEN NoOperand ELSE off.a,
                  IF n = "In" THEN "U8" ELSE t, "U8"),
             <<OpCode(n), Meta(t, var)>> \o x.bytes \o y.bytes
                \o (IF var = "None" THEN <<>> ELSE off.bytes)) :
        n \in names, t \in types, var \in Variants, x \in xs, y \in ys, off \in offs}

EncodedUn(names, types, xs, offs) ==
    {Encoded(MkOp(n, var, x.a, NoOperand, NoOperand,
                  IF var = "None" THEN NoOperand ELSE off.a,
                  IF n = "Out" THEN "U8" ELSE t, "U8"),
             <<OpCode(n), Meta(t, var)>> \o x.bytes
                \o (IF var = "None" THEN <<>> ELSE off.bytes)) :
        n \in names, t \in types, var \in {"None", "First"}, x \in xs, off \in offs}

EncodedOps ==
    {Encoded(Plain(n, NoOperand, NoOperand, NoOperand), <<OpCode(n)>>) : n \in PlainCodes}
    \cup {Encoded(Plain(n, x.a, NoOperand, NoOperand), <<OpCode(n)>> \o x.bytes) :
            n \in OperandCodes, x \in SampleOperands}
    \cup EncodedBin({"Set"}, {"I16"}, SampleOperands, SampleOperands, OneOperand)
    \cup EncodedBin((BinCodes \ {"Set"}) \cup {"In"}, {"U32"}, FewOperands,
                    OneOperand, FewOperands)
    \cup EncodedUn({"Inc"}, {op_types[i] : i \in 1..Len(op_types)}, OneOperand,
                   OneOperand)
    \cup EncodedUn((UnCodes \ {"Inc"}) \cup {"Out"}, {"F32"}, FewOperands,
                   FewOperands)
    \cup {Encoded(MkOp(n, "None", x.a, y.a, NoOperand, NoOperand, t, "U8"),
                  <<OpCode(n), TypeTag(t)>> \o x.bytes \o y.bytes) :
            n \in ShiftCodes, t \in {"U8", "I64"}, x \in FewOperands, y \in OneOperand}
    \cup {Encoded(MkOp("Cnv", "None", x.a, y.a, NoOperand, NoOperand, t, u),
                  <<OpCode("Cnv"), TypeTag(t) + 16 * TypeTag(u)>> \o x.bytes \o y.bytes) :
            t \in {op_types[i] : i \in 1..Len(op_types)},
            u \in {"U8", "I8", "U16", "I16"}, x \in OneOperand, y \in FewOperands}
    \cup {Encoded(Plain("Zer", x.a, y.a, NoOperand), <<OpCode("Zer")>> \o x.bytes \o y.bytes) :
            x \in FewOperands, y \in OneOperand}
    \cup {Encoded(Plain(n, x.a, y.a, z.a), <<OpCode(n)>> \o x.bytes \o y.bytes \o z.bytes) :
            n \in TripleCodes, x \in FewOperands, y \in FewOperands, z \in OneOperand}

\* the bytes after an op in the source
Rests == {<<>>, <<0>>, <<255, 12>>}

\* decode_incorrect_variant and decode_unknown_op_code
TestStreams ==
    {<<OpCode("Inc"), 130, 12, 192, 8, 0>>, <<255, 66, 12, 192, 8>>}

Prefixes(bs) == {SubSeq(bs, 1, n) : n \in 0..Len(bs)}

\* the byte sources handed to decode_op
DecInputs ==
    {e.bytes \o r : e \in EncodedOps, r \in Rests}
    \cup UNION {Prefixes(e.bytes) : e \in EncodedOps}
    \cup {<<c>> \o t : c \in UnknownCodes, t \in Tails}
    \cup {<<OpCode(n), Meta(t, var)>> \o tl :
            n \in UnCodes \cup {"Out"}, t \in {"U16"}, var \in {"Second", "Both"},
            tl \in Tails}
    \cup {<<OpCode(n), 12 + 64 * v>> \o tl :
            n \in {"Inc", "Out"}, v \in {2, 3}, tl \in Tails}
    \cup {<<OpCode(n)>> \o tl : n \in {"Go", "Clf"}, tl \in Tails}
    \cup TestStreams

\* no executor runs beside the decoder
DecInit ==
    /\ functions = <<>>
    /\ program_counter = 0
    /\ call_stack = <<>>
    /\ prepared_call = FALSE
    /\ parameter_ptr = 0
    /\ stack = <<>>
    /\ files = <<>>
    /\ last = [by |-> "new", op |-> Nop, id |-> 0, res |-> ExNone,
               top |-> [pre_len |-> 0, activated |-> FALSE, windowed |-> FALSE,
                        clf_pc |-> 0],
               pre |-> [pc |-> 0, cs |-> <<>>, prep |-> FALSE, pp |-> 0,
                        stack |-> stack, files |-> files]]
    /\ ghost = [recs |-> <<>>, entry_len |-> 0, calls |-> 0,
                win |-> [clean |-> FALSE, top |-> FALSE, args |-> <<>>]]
    /\ code \in DecInputs
    /\ decoded = NotDecoded

\* decode_op(&mut code), and again on what an op left in the source
Decode ==
    /\ decoded.by = "new" \/ (decoded.res.ok /\ code # <<>>)
    /\ \E r \in {decode_op(code)} :
            /\ code' = r.rest
            /\ decoded' = [by |-> "decode_op", input |-> code, res |-> r]
    /\ UNCHANGED <<functions, program_counter, call_stack, prepared_call,
                   parameter_ptr, stack, files, last, ghost>>

DecNext == Decode

DecSpec == DecInit /\ [][DecNext]_vars

-----------------------------------------------------------------------------
(* Properties *)

\* the last driver operation was an execute() that fetched the op named
Ran(names) ==
    /\ last.by = "execute"
    /\ current_op(last.pre).ok
    /\ last.op.op \in names

Failed == last.res.kind = "Err"

\* the frame the last op was resolved in
PreCall == current_call(last.pre).call

RECURSIVE FrameSum(_)
FrameSum(cs) ==
    IF Len(cs) = 0 THEN 0
    ELSE FunctionOf(cs[1]).frame_size + FrameSum(Tail(cs))

\* C1: Div and Mod with a zero divisor and a writable destination fail with
\* DivisionByZero and leave the destination holding the value it held before.
C1_DivByZeroWritesNothing ==
    LET b == bin_values(last.pre, last.op, last.op.t) IN
    (Ran({"Div", "Mod"}) /\ b.ok /\ b.y = 0) =>
        /\ Failed /\ last.res.err.kind = "DivisionByZero"
        /\ get_val(St, b.left, last.op.t) = ValOk(b.x)

\* C2: whenever execute() returns an error the PC is the one before the call.
C2_ErrorKeepsPC ==
    (last.by = "execute" /\ Failed) => program_counter = last.pre.pc

C4_PreparedHasCaller == prepared_call => Len(call_stack) >= 2

\* C5: when a record that Clf activated is popped by the Ret of its function,
\* the stack is as long as it was before the App that pushed the record.
C5_RetRestoresStack ==
    (/\ Ran({"Ret"})
     /\ ~last.pre.prep
     /\ last.top.activated
     /\ Len(call_stack) < Len(last.pre.cs)) =>
        Len(stack) = last.top.pre_len

\* C6: the stack is as long as at the entry plus the frames of all records.
C6_StackIsSumOfFrames ==
    Len(stack) = ghost.entry_len + FrameSum(call_stack)

CondNames == UnConditionals \cup BinConditionals \cup BitConditionals \cup {"Cmp"}

\* the ops after index p that are not conditional, and the first of them
PlainAfter(prog, p) ==
    {q \in (p + 1)..(Len(prog) - 1) : ~is_conditional(prog[q + 1])}

NextPlain(prog, p) ==
    CHOOSE q \in PlainAfter(prog, p) : \A r \in PlainAfter(prog, p) : q <= r

\* C7: a conditional at index p whose test is false returns Ok and sets the PC
\* to q + 1, q the first index after p of an op that is not conditional; a
\* conditional whose test is true moves to the next op.  Nothing else changes.
C7_FailedGuardSkipsOne ==
    LET c == test(last.pre, last.op)
        prog == FunctionOf(PreCall).program
        p == last.pre.pc
    IN
    /\ (Ran(CondNames) /\ c.ok /\ ~c.val /\ PlainAfter(prog, p) # {}) =>
            /\ last.res = ExOk
            /\ St = [last.pre EXCEPT !.pc = NextPlain(prog, p) + 1]
    /\ (Ran(CondNames) /\ c.ok /\ c.val) =>
            /\ last.res = ExOk
            /\ St = [last.pre EXCEPT !.pc = p + 1]

\* a failed guard in front of two more guards and the body
C7_Witness ==
    /\ Ran({"Ift"})
    /\ last.res = ExOk
    /\ ~test(last.pre, last.op).val
    /\ program_counter = last.pre.pc + 3

\* the argument of the Par just executed, read in the frame it ran in
ParValue == get_un(last.pre, last.op, last.op.t)

\* the memory after a Par that wrote its argument at addr
ParWrote(addr) ==
    /\ InBounds(last.pre.stack, addr, SizeOf(last.op.t))
    /\ stack = WriteBytes(last.pre.stack, addr,
                          ToBytes(ParValue.val, SizeOf(last.op.t)))

\* C8 as stated: Par between App and Clf writes the argument at
\* callee.base_ptr + callee.frame_size + parameter_ptr, callee the record
\* pushed by App.
C8_ParWritesPastCalleeFrame ==
    LET callee == last.pre.cs[Len(last.pre.cs)] IN
    (Ran({"Par"}) /\ last.pre.prep /\ last.res = ExOk) =>
        ParWrote(wadd(wadd(callee.base_ptr, FunctionOf(callee).frame_size),
                      last.pre.pp))

\* C8 amended: Par between App and Clf writes the argument at
\* caller.base_ptr + caller.frame_size + parameter_ptr, caller the record
\* below the one pushed by App.
C8_ParWritesPastCallerFrame ==
    (Ran({"Par"}) /\ last.pre.prep /\ last.res = ExOk) =>
        ParWrote(wadd(wadd(PreCall.base_ptr, FunctionOf(PreCall).frame_size),
                      last.pre.pp))

\* a second argument, written where the callee's frame begins plus the size
\* of the first
C8_Witness ==
    /\ Ran({"Par"})
    /\ last.pre.prep
    /\ last.res = ExOk
    /\ last.pre.pp = 2
    /\ ParValue.val = 9
    /\ FunctionOf(PreCall).frame_size # FunctionOf(call_stack[Len(call_stack)]).frame_size

RECURSIVE SizeSum(_)
SizeSum(args) ==
    IF Len(args) = 0 THEN 0 ELSE SizeOf(args[1].t) + SizeSum(Tail(args))

\* C9: after App, Par, ..., Par, Clf made while the caller's frame is the top
\* of the stack, the callee reads argument k at its Loc of the sizes of the
\* arguments before it, and reads the value the caller passed.
C9_CalleeReadsArguments ==
    (/\ Ran({"Clf"})
     /\ last.res = ExOk
     /\ last.pre.prep
     /\ ghost.win.clean
     /\ ghost.win.top) =>
        \A k \in 1..Len(ghost.win.args) :
            get_val(St, Loc(SizeSum(SubSeq(ghost.win.args, 1, k - 1))),
                    ghost.win.args[k].t)
                = ValOk(ghost.win.args[k].val)

\* two arguments of different sizes have been passed
C9_Witness ==
    /\ Ran({"Clf"})
    /\ last.res = ExOk
    /\ ghost.win.clean
    /\ ghost.win.top
    /\ Len(ghost.win.args) = 2
    /\ ghost.win.args[1].val = 300
    /\ ghost.win.args[2].val = 9

\* C10: a successful Clf(r) at PC p with a prepared call on top sets the top
\* record's ret_val_ptr to the word value of r in the caller's frame and its
\* ret_program_counter to p + 1, clears prepared_call, sets PC and
\* parameter_ptr to 0 and changes nothing else.
C10_ClfActivates ==
    LET v == get_val(last.pre, last.op.x, "Uw")
        n == Len(last.pre.cs)
    IN
    (Ran({"Clf"}) /\ last.res = ExOk /\ last.pre.prep) =>
        /\ v.ok
        /\ St = [last.pre EXCEPT !.cs[n].ret_val_ptr = v.val,
                                 !.cs[n].ret_program_counter = last.pre.pc + 1,
                                 !.prep = FALSE,
                                 !.pc = 0,
                                 !.pp = 0]

\* a Clf in a callee, after one argument, that names the return slot 1
C10_Witness ==
    /\ Ran({"Clf"})
    /\ last.res = ExOk
    /\ last.pre.prep
    /\ last.pre.pp = 1
    /\ last.pre.pc = 2
    /\ Len(call_stack) = 3
    /\ call_stack[3].ret_val_ptr = 1
    /\ call_stack[3].ret_program_counter = 3

RefPayloads == {0, 1, 2}

\* C12: a successful App(f) pushes exactly one call record, with base_ptr the
\* stack length before the App and ret_val_ptr and ret_program_counter 0,
\* grows the stack by functions[f].frame_size keeping what was on it, sets
\* prepared_call and advances the PC by one; and in every state Ref(u) read as
\* a word is the current frame's base_ptr + u.
C12_AppPushesOneRecord ==
    LET f == get_val(last.pre, last.op.x, "Uw").val IN
    /\ (Ran({"App"}) /\ last.res = ExOk) =>
            /\ f < Len(functions)
            /\ call_stack = Append(last.pre.cs, [function |-> f,
                                                 base_ptr |-> Len(last.pre.stack),
                                                 ret_val_ptr |-> 0,
                                                 ret_program_counter |-> 0])
            /\ Len(stack) = Len(last.pre.stack) + functions[f + 1].frame_size
            /\ SubSeq(stack, 1, Len(last.pre.stack)) = last.pre.stack
            /\ prepared_call
            /\ program_counter = last.pre.pc + 1
    /\ current_call(St).ok =>
            \A u \in RefPayloads :
                get_val(St, Ref(u), "Uw") = ValOk(current_call(St).call.base_ptr + u)

\* an App executed by a callee whose frame begins at address 1
C12_Witness ==
    /\ Ran({"App"})
    /\ last.res = ExOk
    /\ Len(call_stack) = 3
    /\ call_stack[3].base_ptr = 2
    /\ current_call(St).call.base_ptr = 1
    /\ get_val(St, Ref(1), "Uw") = ValOk(2)

\* C13: App(x) and call(id, _) with a function id >= |functions| return
\* UnknownFunction(id); no call record is pushed, the stack does not grow and
\* prepared_call is not set: the executor is as before.
C13_UnknownFunctionChangesNothing ==
    LET v == get_val(last.pre, last.op.x, "Uw") IN
    /\ (last.by = "call" /\ last.id >= Len(functions)) =>
            /\ last.res = ExErr(UnknownFunction(last.id))
            /\ St = last.pre
    /\ (Ran({"App"}) /\ v.ok /\ v.val >= Len(functions)) =>
            /\ last.res = ExErr(UnknownFunction(v.val))
            /\ St = last.pre

\* App(1) on a table of one function, executed after an App that succeeded
C13_Witness ==
    /\ Ran({"App"})
    /\ last.res = ExErr(UnknownFunction(1))
    /\ Len(functions) = 1
    /\ Len(call_stack) = 2
    /\ prepared_call

\* C14: in every state with prepared_call set that an execute() has led to and
\* in which operands can be resolved, the record current_call() names, whose
\* base_ptr and ret_val_ptr resolve the operands and whose program gives the
\* next op, is one that a Clf or call() has activated, never one pushed by
\* App and not activated yet.
C14_PreparedResolvesInCaller ==
    (prepared_call /\ current_call(St).ok /\ last.by = "execute") =>
        /\ Len(call_stack) >= 2
        /\ current_call(St).call = call_stack[Len(call_stack) - 1]
        /\ ghost.recs[Len(call_stack) - 1].activated

BinWriteNames == {"Set", "Add", "Sub", "Mul", "Div", "Mod"}
UnWriteNames == {"Inc", "Dec"}
BinNames == BinWriteNames \cup BinConditionals

\* the ops that read their first operand before anything else
ReadFirstNames ==
    BinNames \cup UnWriteNames \cup UnConditionals
        \cup {"End", "Slp", "Go", "App", "Clf", "Par", "Cmp"}

IndPayloads == {0, 1, WordMod - 1}
IndOffsets == {Val(1), Loc(0)}


\* C16: in every state of the test programs, reading and writing through
\* Ind(u) fail with NullPointerDereference exactly when u = 0, u the payload after the offset
\* of a First/Second/Both variant has been added; the word stored at the
\* operand plays no part, so Ind(u) with u # 0 whose stored word is 0 reads
\* and writes address 0.
C16_NullIffPayloadZero ==
    functions \in TestTables =>
    /\ \A u \in IndPayloads :
        /\ (get_val(St, Ind(u), "I16").err = E("NullPointerDereference")) <=> (u = 0)
        /\ (set_val(St, Ind(u), "U8", 1).err = E("NullPointerDereference")) <=> (u = 0)
        /\ \A off \in IndOffsets :
            LET null(d, m) ==
                    d.ok =>
                        /\ m.ok
                        /\ m.a = Ind((u + d.val) % WordMod)
                        /\ (get_val(St, m.a, "U8").err = E("NullPointerDereference"))
                                <=> ((u + d.val) % WordMod = 0)
            IN null(get_val(St, off, "Uw"), make_offset(St, Ind(u), off))
    /\ \A u \in {1} :
        LET p == get_val(St, Loc(u), "Uw") IN
        (p.ok /\ p.val = 0) =>
            /\ get_val(St, Ind(u), "U8") = get_val(St, Glb(0), "U8")
            /\ set_val(St, Ind(u), "U8", 1) = set_val(St, Glb(0), "U8", 1)

\* Inc through Ind(1) whose stored word is 0 has incremented the byte at
\* address 0
C16_Witness ==
    /\ Ran({"Inc"})
    /\ last.op.x = Ind(1)
    /\ get_val(last.pre, Loc(1), "Uw") = ValOk(0)
    /\ last.res = ExOk
    /\ stack[1] = last.pre.stack[1] + 1

\* C17: whenever execute() returns NullPointerDereference, the memory is byte
\* for byte what it was before the call.
C17_NullDerefWritesNothing ==
    (last.by = "execute" /\ last.res = ExErr(E("NullPointerDereference"))) =>
        stack = last.pre.stack

\* the mathematical result of an arithmetic op on integers
MathBin(name, x, y) ==
    CASE name = "Add" -> x + y
      [] name = "Sub" -> x - y
      [] OTHER -> x * y

MathUn(name, x) ==
    CASE name = "Inc" -> x + 1
      [] name = "Dec" -> x - 1
      [] OTHER -> -x

\* a value of type t, read as an integer, is the integer i reduced modulo
\* 2^w into the range of t
Reduced(t, v, i) ==
    /\ (ToInt(t, v) - i) % TypeMod(t) = 0
    /\ IF IsSigned(t)
       THEN -(TypeMod(t) \div 2) <= ToInt(t, v) /\ ToInt(t, v) < TypeMod(t) \div 2
       ELSE 0 <= ToInt(t, v) /\ ToInt(t, v) < TypeMod(t)

\* C18: Add, Sub, Mul, Inc, Dec and Neg of an integer type whose operands can
\* be read and whose target is in memory do not fail, and the target then holds the
\* mathematical result reduced modulo 2^w in the signedness of the type; an
\* immediate Val(u) enters as u truncated to w bits.
C18_ArithmeticWraps ==
    LET o == last.op
        t == o.t
        b == bin_values(last.pre, o, t)
        l == read_un_operand(last.pre, o)
        v == get_un(last.pre, o, t)
        InMemory == {"Loc", "Ind", "Ret", "Glb"}
    IN
    /\ (Ran({"Add", "Sub", "Mul"}) /\ ~IsFloat(t) /\ b.ok /\ b.left.k \in InMemory) =>
            /\ last.res = ExOk
            /\ get_val(St, b.left, t).ok
            /\ Reduced(t, get_val(St, b.left, t).val,
                       MathBin(o.op, ToInt(t, b.x), ToInt(t, b.y)))
            /\ (o.var = "None" /\ o.y.k = "Val") => b.y = o.y.v % TypeMod(t)
    /\ (Ran({"Inc", "Dec", "Neg"}) /\ ~IsFloat(t) /\ v.ok /\ l.a.k \in InMemory) =>
            /\ last.res = ExOk
            /\ get_val(St, l.a, t).ok
            /\ Reduced(t, get_val(St, l.a, t).val, MathUn(o.op, ToInt(t, v.val)))

\* executor_add: 1 + i8::MAX has stored i8::MIN
C18_Witness ==
    /\ Ran({"Add"})
    /\ last.op.t = "I8"
    /\ last.res = ExOk
    /\ ToInt("I8", get_val(last.pre, Loc(0), "I8").val) = 1
    /\ last.op.y = Val(127)
    /\ ToInt("I8", get_val(St, Loc(0), "I8").val) = -128

\* the call record whose function is running in state s: the one below the
\* top inside a call preparation, the top otherwise; 0 if there is none
RunningIndex(s) ==
    IF s.prep THEN (IF Len(s.cs) >= 2 THEN Len(s.cs) - 1 ELSE 0) ELSE Len(s.cs)

PastEnd(s) ==
    /\ RunningIndex(s) > 0
    /\ s.pc >= Len(functions[s.cs[RunningIndex(s)].function + 1].program)

\* C19: execute() entered with an empty call stack, or with PC at or past
\* the end of the running function's program, returns EndOfProgram and
\* leaves PC, call stack, flags, memory and files as they were, so that the
\* next execute() meets the same state.
C19_EndOfProgramChangesNothing ==
    (last.by = "execute" /\ (Len(last.pre.cs) = 0 \/ PastEnd(last.pre))) =>
        /\ last.res = ExErr(E("EndOfProgram"))
        /\ St = last.pre
        /\ execute(St) = Exec(St, ExErr(E("EndOfProgram")))

\* executor_ifa: the execute() after the last op of the program
C19_Witness ==
    /\ last.by = "execute"
    /\ ~last.pre.prep
    /\ Len(last.pre.cs) = 1
    /\ PastEnd(last.pre)
    /\ last.pre.pc = Len(functions[1].program)
    /\ last.pre.pc > 0
    /\ last.res = ExErr(E("EndOfProgram"))

\* the program of the function that was running before the last step
PreProgram == functions[PreCall.function + 1].program

\* C20: a successful Go(x) leaves PC at the word value of x, with no
\* PC += 1 on top, and changes nothing else; the next execute() then fetches
\* op x of the same function, or fails with EndOfProgram if there is none.
\* In the loop of executor_go every step succeeds: Inc adds one to Loc(0)
\* and moves to the Go, the Go moves back to the Inc and leaves Loc(0).
C20_GoSetsProgramCounter ==
    LET o == last.op
        x == get_val(last.pre, o.x, "Uw")
        next == current_op(St)
        before == get_val(last.pre, Loc(0), "U8")
        after == get_val(St, Loc(0), "U8")
    IN
    /\ (Ran({"Go"}) /\ last.res = ExOk) =>
            /\ x.ok
            /\ St = [last.pre EXCEPT !.pc = x.val]
            /\ o.x.k = "Val" => program_counter = o.x.v % WordMod
            /\ IF program_counter < Len(PreProgram)
               THEN next.ok /\ next.op = PreProgram[program_counter + 1]
               ELSE ~next.ok /\ execute(St) = Exec(St, ExErr(E("EndOfProgram")))
    /\ (functions = GoTable /\ last.by = "execute" /\ before.ok) =>
            /\ last.res = ExOk
            /\ after.ok
            /\ last.pre.pc = 0 =>
                    program_counter = 1 /\ after.val = (before.val + 1) % 256
            /\ last.pre.pc = 1 =>
                    program_counter = 0 /\ after.val = before.val

\* executor_go: the Go of the third round of the loop has returned to the Inc
C20_Witness ==
    /\ functions = GoTable
    /\ Ran({"Go"})
    /\ last.res = ExOk
    /\ last.pre.pc = 1
    /\ program_counter = 0
    /\ get_val(St, Loc(0), "U8").val = 3

\* the number of bytes of memory that differ between two states
Changed(s1, s2) ==
    Cardinality({i \in 1..Len(s1.stack) :
                    i > Len(s2.stack) \/ s1.stack[i] # s2.stack[i]})

\* C21: a successful In(x, y) takes the next byte off the current file, or
\* leaves the file as it is at the end of input; x then holds the byte, or 0
\* at the end of input; y, if it is not Emp and not x itself, holds 1 if
\* there was a byte and 0 if not; no other byte of memory has changed, and
\* with y = Emp at most the byte of x has.
C21_InReadsOneByte ==
    LET o == last.op
        had == Len(last.pre.files) > 0
        byte == IF had THEN Head(last.pre.files) ELSE 0
    IN
    (Ran({"In"}) /\ last.res = ExOk /\ o.var = "None") =>
        /\ files = IF had THEN Tail(last.pre.files) ELSE last.pre.files
        /\ get_val(St, o.x, "U8") = ValOk(byte)
        /\ (o.y # Emp /\ o.y # o.x) =>
                get_val(St, o.y, "U8") = ValOk(IF had THEN 1 ELSE 0)
        /\ Len(stack) = Len(last.pre.stack)
        /\ Changed(St, last.pre) <= (IF o.y = Emp THEN 1 ELSE 2)
        /\ St = [last.pre EXCEPT !.files = files, !.stack = stack,
                                 !.pc = last.pre.pc + 1]

\* executor_mul_from_in: the second In has read 4 and set the flag
C21_Witness ==
    /\ functions = MulInTable
    /\ Ran({"In"})
    /\ last.res = ExOk
    /\ last.pre.files = <<4>>
    /\ last.op.y = Loc(2)
    /\ get_val(St, Loc(0), "U8") = ValOk(3)
    /\ get_val(St, Loc(1), "U8") = ValOk(4)
    /\ get_val(St, Loc(2), "U8") = ValOk(1)
    /\ files = <<>>

\* C22: In(x, Emp) at the end of input, where there is no slot for the flag,
\* returns a FilesError.
C22_EofWithoutFlagIsFilesError ==
    (Ran({"In"}) /\ last.pre.files = <<>> /\ last.op.y = Emp /\ last.op.var = "None") =>
        (last.res.kind = "Err" /\ last.res.err.kind = "FilesError")

\* operand a of the same kind with its payload moved by d, modulo the word
Displaced(a, d) == [k |-> a.k, v |-> (a.v + d) % WordMod]

\* C23: an op with an offset variant acts as the same op without one whose
\* displaced operands have the payload (payload + word at the offset
\* operand) mod 2^wordbits, the offset read in the state the op starts in:
\* First displaces x, Second y, Both x and y by the same value. Set then
\* stores the value of the displaced y in the displaced x and changes no byte
\* outside it; Inc adds one at the displaced x.
C23_OffsetDisplacesOperands ==
    LET o == last.op
        a == get_val(last.pre, o.off, "Uw")
        X == IF o.var \in {"First", "Both"} THEN Displaced(o.x, a.val) ELSE o.x
        Y == IF o.var \in {"Second", "Both"} THEN Displaced(o.y, a.val) ELSE o.y
        from == get_val(last.pre, Y, o.t)
        old == get_val(last.pre, X, o.t)
    IN
    /\ (Ran({"Set", "Inc"}) /\ o.var # "None" /\ ~a.ok) =>
            /\ last.res = ExErr(a.err)
            /\ St = last.pre
    /\ (Ran({"Set"}) /\ o.var # "None" /\ a.ok /\ from.ok /\ old.ok /\ X.k = "Loc") =>
            /\ last.res = ExOk
            /\ get_val(St, X, o.t) = from
            /\ Changed(St, last.pre) <= SizeOf(o.t)
            /\ Changed(St, last.pre) = 0 <=> from = old
            /\ St = [last.pre EXCEPT !.stack = stack, !.pc = last.pre.pc + 1]
    /\ (Ran({"Inc"}) /\ o.var = "First" /\ a.ok /\ old.ok /\ X.k = "Loc") =>
            /\ last.res = ExOk
            /\ get_val(St, X, o.t) = ValOk((old.val + 1) % TypeMod(o.t))
            /\ Changed(St, last.pre) <= SizeOf(o.t)

\* Set with a Both variant and the index 2 at Loc(4) has copied Loc(0 + 2)
\* to Loc(1 + 2)
C23_Witness ==
    /\ functions = OffsetTable
    /\ Ran({"Set"})
    /\ last.op.var = "Both"
    /\ last.op.x = Loc(1)
    /\ last.op.y = Loc(0)
    /\ get_val(last.pre, Loc(4), "Uw") = ValOk(2)
    /\ last.res = ExOk
    /\ last.pre.stack = <<0, 0, 7, 0, 2, 0>>
    /\ stack = <<0, 0, 7, 7, 2, 0>>

BitwiseNames == {"Shl", "Shr", "And", "Or", "Xor", "Not"} \cup BitConditionals
FloatNames == UnConditionals \cup BinConditionals \cup {"Neg", "Inc", "Dec"}

\* C24: the shifts, the bitwise ops and the bitwise tests on a float type
\* return IncorrectOperation(op) with the state as it was, whatever their
\* operands are (a null pointer is not looked at); the other tests, Neg, Inc
\* and Dec on a float type never return IncorrectOperation for operands
\* that can be read or written, and return Ok when the operands they name
\* can be read as floats of the type.
C24_BitwiseRejectsFloats ==
    LET o == last.op IN
    /\ (Ran(BitwiseNames) /\ IsFloat(o.t)) =>
            /\ last.res = ExErr(IncorrectOperation(o))
            /\ St = last.pre
    /\ (Ran(FloatNames) /\ IsFloat(o.t) /\ o.x.k \in {"Loc", "Val"}) =>
            /\ last.res.kind = "Err" => last.res.err = E("MemoryError")
            /\ (/\ get_val(last.pre, o.x, o.t).ok
                /\ o.y.k # "Emp" => get_val(last.pre, o.y, o.t).ok)
                    => last.res = ExOk

\* And on an f32 has been refused
C24_Witness ==
    /\ Ran({"And"})
    /\ last.op.t = "F32"
    /\ last.op.x = Ind(0)
    /\ last.res = ExErr(IncorrectOperation(last.op))
    /\ St = last.pre

\* the inverse of a test
Partner(name) ==
    CASE name = "Ift" -> "Iff" [] name = "Iff" -> "Ift"
      [] name = "Ife" -> "Ine" [] name = "Ine" -> "Ife"
      [] name = "Ifl" -> "Inl" [] name = "Inl" -> "Ifl"
      [] name = "Ifg" -> "Ing" [] name = "Ing" -> "Ifg"
      [] name = "Ifa" -> "Ina" [] name = "Ina" -> "Ifa"
      [] name = "Ifo" -> "Ino" [] name = "Ino" -> "Ifo"
      [] name = "Ifx" -> "Inx" [] OTHER -> "Ifx"

IntTypes == {"U8", "I8", "U16", "I16", "Uw", "Iw"}

\* operand values at the edges of the types
EdgeValues == {0, 1, 127, 128, 255, 256, 32767, 32768, WordMod - 1}

FallsThrough(r, s) == r.res = ExOk /\ r.s.pc = s.pc + 1

Skips(r, s) ==
    \/ r.res = ExOk /\ r.s.pc >= s.pc + 2
    \/ r.res = ExErr(E("EndOfProgram"))

\* C25: whenever a test other than Cmp has run on operands that can be read,
\* its inverse run in the same state does the opposite: exactly one of the
\* two falls through to the next op and the other makes the conditional
\* skip. At the entry of a program this holds of every test on every
\* integer type and every pair of edge values.
C25_InverseTestsAreComplements ==
    LET o == last.op
        mine == Exec(St, last.res)
        other == conditional(last.pre, [o EXCEPT !.op = Partner(o.op)])
    IN
    /\ (Ran(UnConditionals \cup BinConditionals \cup BitConditionals)
            /\ test(last.pre, o).ok) =>
            /\ FallsThrough(mine, last.pre) \/ Skips(mine, last.pre)
            /\ FallsThrough(mine, last.pre) <=> Skips(other, last.pre)
            /\ Skips(mine, last.pre) <=> FallsThrough(other, last.pre)
    /\ (functions = PairTable /\ last.by = "call" /\ last.res = ExOk
            /\ Len(call_stack) = 1) =>
            \A t \in IntTypes, a \in EdgeValues :
                /\ test(St, Un("Ift", Val(a), t)).val
                        # test(St, Un("Iff", Val(a), t)).val
                /\ \A b \in EdgeValues, n \in {"Ife", "Ifl", "Ifg", "Ifa", "Ifo", "Ifx"} :
                        test(St, Bin(n, Val(a), Val(b), t)).val
                            # test(St, Bin(Partner(n), Val(a), Val(b), t)).val

\* executor_ina: the test has fallen through where Ifa skips
C25_Witness ==
    /\ functions = InaTable
    /\ Ran({"Ina"})
    /\ get_val(last.pre, Loc(0), "U16") = ValOk(32)
    /\ get_val(last.pre, Loc(2), "U16") = ValOk(2)
    /\ last.res = ExOk
    /\ program_counter = 3
    /\ conditional(last.pre, [last.op EXCEPT !.op = "Ifa"]).s.pc = 4

\* C26: Cmp(a, b, n) whose three operands can be read as words and whose
\* two ranges of n bytes, at the addresses a and b counted from the start of
\* the memory, lie in the memory returns Ok and leaves the memory as it was;
\* if the ranges hold the same bytes the PC moves to the next op, which is
\* the op the next execute() fetches; if not, the PC moves past the first
\* op after the Cmp that is not conditional, which is not executed.
C26_CmpComparesBytes ==
    LET o == last.op
        a == get_val(last.pre, o.x, "Uw")
        b == get_val(last.pre, o.y, "Uw")
        n == get_val(last.pre, o.z, "Uw")
        mem == last.pre.stack
        prog == FunctionOf(PreCall).program
        p == last.pre.pc
        same == \A i \in 1..n.val : mem[a.val + i] = mem[b.val + i]
    IN
    (Ran({"Cmp"}) /\ a.ok /\ b.ok /\ n.ok
        /\ a.val + n.val <= Len(mem) /\ b.val + n.val <= Len(mem)) =>
        /\ stack = mem
        /\ same =>
                /\ last.res = ExOk
                /\ St = [last.pre EXCEPT !.pc = p + 1]
                /\ p + 1 < Len(prog) => current_op(St).op = prog[p + 2]
        /\ (~same /\ PlainAfter(prog, p) # {}) =>
                /\ last.res = ExOk
                /\ St = [last.pre EXCEPT !.pc = NextPlain(prog, p) + 1]

\* executor_cmp: the second Cmp has found the bytes at 0 and 2 to differ and
\* has skipped the Set after it
C26_Witness ==
    /\ functions = CmpTable
    /\ Ran({"Cmp"})
    /\ last.op.y = Val(2)
    /\ last.pre.stack[1] # last.pre.stack[3]
    /\ last.res = ExOk
    /\ last.pre.pc = 4
    /\ program_counter = 6
    /\ stack = last.pre.stack

RECURSIVE Gcd(_, _)
Gcd(a, b) == IF b = 0 THEN a ELSE Gcd(b, a % b)

\* the arguments the gcd program starts from
GcdX == functions[1].program[1].y.v
GcdY == functions[1].program[2].y.v

GcdDone ==
    /\ last.res = ExEnd(0)
    /\ Len(call_stack) = 1
    /\ ~prepared_call
    /\ Len(stack) = 3
    /\ stack[1] = Gcd(GcdX, GcdY)

\* the loop of the driver has another turn to take, and the model has the
\* room for it
GcdGoesOn ==
    /\ last.res \in {ExNone, ExOk}
    /\ Len(call_stack) < MaxDepth
    /\ parameter_ptr < MaxParamPtr

\* a variant of the run: the turns left are at most this many.  In gcd the
\* divisor Loc(1) of its frame counts the rounds left, the program counter
\* the ops left in the round; the entry function runs straight through.
GcdRank ==
    LET b == stack[5]
        pc == program_counter
    IN  CASE last.res.kind = "End" -> 0
          [] last.by = "new" -> 2100
          [] Len(call_stack) = 1 /\ pc = 6 -> 1
          [] Len(call_stack) = 1 \/ prepared_call -> 2090 - pc
          [] pc = 6 -> 2
          [] pc \in {4, 5} -> 8 * b + 16 - pc
          [] OTHER -> 8 * b + 10 - pc

\* C27: on the gcd program every execute() of the driver returns Ok or
\* End(0), never an error; End(0) comes with the call stack at depth 1 and
\* gcd(x, y) in Loc(0) of the entry frame; and it comes after finitely many
\* turns, for until then the loop goes on and every turn lowers a variant
\* that is a natural number.
C27_GcdTerminates ==
    /\ [](last.res.kind \in {"None", "Ok", "End"})
    /\ [](last.res.kind = "End" => GcdDone)
    /\ [](last.res.kind # "End" => GcdGoesOn)
    /\ [](GcdRank \in Nat)
    /\ [][GcdRank' < GcdRank]_vars

\* executor_gcd: 13 for 234 and 91
C27_Witness ==
    /\ GcdX = 234
    /\ GcdY = 91
    /\ GcdDone
    /\ stack[1] = 13

-----------------------------------------------------------------------------
(* Properties of the decoder *)

DecodedOp == decoded.by = "decode_op"

IsPrefixOf(p, bs) == Len(p) <= Len(bs) /\ SubSeq(bs, 1, Len(p)) = p

\* what is left of bs after its first n bytes
Behind(bs, n) == SubSeq(bs, n + 1, Len(bs))

\* C28: decode_op of a source whose first byte is none of the 46 opcodes
\* returns UnknownOpCode, whatever follows, and has read that byte only.
C28_UnknownOpCode ==
    (DecodedOp /\ decoded.input # <<>> /\ decoded.input[1] >= 46) =>
        /\ decoded.res = DErr("UnknownOpCode", Tail(decoded.input))
        /\ code = Tail(decoded.input)

\* decode_unknown_op_code
C28_Witness ==
    /\ DecodedOp
    /\ decoded.input = <<255, 66, 12, 192, 8>>
    /\ decoded.res.err = "UnknownOpCode"
    /\ code = <<66, 12, 192, 8>>

\* the source begins with an opcode that carries a UnOp and a meta byte whose
\* variant bits are Second or Both
UnOpWithBadVariant ==
    /\ DecodedOp
    /\ Len(decoded.input) >= 2
    /\ decoded.input[1] < 46
    /\ op_codes[decoded.input[1] + 1] \in
            {"Not", "Neg", "Inc", "Dec", "Ift", "Iff", "Par", "Ret", "Out"}
    /\ decoded.input[2] \div 64 \in {2, 3}

\* C29 as stated: such a source yields IncorrectVariant, whatever follows the
\* meta byte.
C29_BadVariantWhateverFollows ==
    UnOpWithBadVariant => decoded.res = DErr("IncorrectVariant", code)

\* the first operand of a source, by the wire format: one byte when short,
\* else the byte of kind and size and the value bytes
CompleteOperand(bs) == bs # <<>> /\ (bs[1] < 128 \/ Len(bs) >= 2 + (bs[1] % 4))
OperandLen(bs) == IF bs[1] < 128 THEN 1 ELSE 2 + (bs[1] % 4)
DefinedKind(bs) == bs[1] < 128 \/ (bs[1] \div 16) % 8 # 7

\* C29: such a source yields IncorrectVariant when the type bits of the meta
\* byte name one of the twelve types and a complete operand of a defined kind
\* follows; the operand is read first, and nothing after it.  An undefined
\* type or kind yields UndefinedOperation, a source that ends before the
\* operand does yields UnexpectedEnd.
C29_BadVariantAfterOperand ==
    UnOpWithBadVariant =>
        /\ ~decoded.res.ok
        /\ decoded.res.err =
                IF decoded.input[2] % 16 >= 12 THEN "UndefinedOperation"
                ELSE IF ~CompleteOperand(Behind(decoded.input, 2)) THEN "UnexpectedEnd"
                ELSE IF ~DefinedKind(Behind(decoded.input, 2)) THEN "UndefinedOperation"
                ELSE "IncorrectVariant"
        /\ decoded.res.err = "IncorrectVariant" =>
                code = Behind(decoded.input,
                              2 + OperandLen(Behind(decoded.input, 2)))

\* decode_incorrect_variant
C29_Witness ==
    /\ DecodedOp
    /\ decoded.input = <<17, 130, 12, 192, 8, 0>>
    /\ decoded.res.err = "IncorrectVariant"
    /\ code = <<192, 8, 0>>

\* C30: decode_op of a source that begins with the encoding of an op returns
\* that op and leaves in the source exactly what follows the encoding;
\* decode_op of a proper prefix of an encoding, the empty source among them,
\* returns UnexpectedEnd.
C30_DecodesEncodings ==
    DecodedOp =>
        \A e \in EncodedOps :
            /\ IsPrefixOf(e.bytes, decoded.input) =>
                    /\ decoded.res = DOk(e.op, Behind(decoded.input, Len(e.bytes)))
                    /\ code = Behind(decoded.input, Len(e.bytes))
            /\ (IsPrefixOf(decoded.input, e.bytes) /\ decoded.input # e.bytes) =>
                    /\ ~decoded.res.ok
                    /\ decoded.res.err = "UnexpectedEnd"

\* decode_bin_both_offset with bytes behind it: mod u32 ref(8){loc(127)}
\* val(5){loc(127)}
C30_Witness ==
    /\ DecodedOp
    /\ decoded.input = <<9, 196, 192, 8, 176, 5, 127, 255, 12>>
    /\ decoded.res.ok
    /\ decoded.res.val =
            MkOp("Mod", "Both", Ref(Word(8, 0)), Val(Word(5, 0)), NoOperand,
                 Loc(Word(127, 0)), "U32", "U8")
    /\ code = <<255, 12>>

\* C31: while a call is prepared, parameter_ptr is the sum of the sizes of
\* the Par ops that have succeeded since the App that opened the window; it
\* is 0 right after a successful App, and a Par that fails leaves it as it
\* was.
C31_ParameterPtrIsSumOfPars ==
    /\ prepared_call => parameter_ptr = SizeSum(ghost.win.args)
    /\ (Ran({"App"}) /\ last.res = ExOk) => parameter_ptr = 0
    /\ (Ran({"Par"}) /\ Failed) => parameter_ptr = last.pre.pp

\* the stack s without its last n bytes
Narrowed(s, n) == SubSeq(s, 1, Len(s) - n)

\* C32: a successful Ret(x, T) with an operand has read x as T in the frame
\* of the function that executes it and has written that value at the
\* absolute address ret_val_ptr of that function's call record, before the
\* popped frame was taken off the stack; Ret(Emp) writes no byte; when the
\* read or the write fails, Ret fails with the call stack and the stack as
\* they were.
C32_RetWritesAtRetValPtr ==
    LET o == last.op
        pre == last.pre
        top == pre.cs[Len(pre.cs)]
        a == read_un_operand(pre, o)
        v == get_val(pre, a.a, o.t)
        w == mem_set(pre.stack, PreCall.ret_val_ptr, o.t, v.val)
        done == a.ok /\ v.ok /\ w.ok
    IN Ran({"Ret"}) =>
        /\ (o.x.k # "Emp" /\ last.res = ExOk) =>
                /\ done
                /\ call_stack = SubSeq(pre.cs, 1, Len(pre.cs) - 1)
                /\ stack = Narrowed(w.mem, FunctionOf(top).frame_size)
        /\ o.x.k = "Emp" =>
                /\ Len(stack) <= Len(pre.stack)
                /\ stack = SubSeq(pre.stack, 1, Len(stack))
        /\ (o.x.k # "Emp" /\ ~done) =>
                /\ Failed
                /\ call_stack = pre.cs
                /\ stack = pre.stack

\* the callee has returned 1 through the slot at address 1 that Clf(Ref(1))
\* named, and its frame is gone
C32_Witness ==
    /\ Ran({"Ret"})
    /\ last.res = ExOk
    /\ last.op.x = Loc(0)
    /\ ~last.pre.prep
    /\ PreCall.ret_val_ptr = 1
    /\ PreCall.base_ptr = 2
    /\ last.pre.stack = <<0, 0, 1, 0>>
    /\ stack = <<0, 1>>
    /\ Len(call_stack) = 1

\* the last op was a Ret out of a frame that a Clf at the last op of the
\* calling program had activated
ClfWasLast ==
    /\ Ran({"Ret"})
    /\ ~last.pre.prep
    /\ last.top.activated
    /\ last.top.windowed
    /\ Len(last.pre.cs) >= 2
    /\ LET prog == FunctionOf(last.pre.cs[Len(last.pre.cs) - 1]).program IN
        /\ last.top.clf_pc + 1 = Len(prog)
        /\ prog[Len(prog)].op = "Clf"

OneOperandRun ==
    /\ decoded.by = "decode_op"
    /\ Len(decoded.input) >= 2
    /\ decoded.input[1] < Len(op_codes)
    /\ op_codes[decoded.input[1] + 1] \in OperandCodes

\* byte i of the n value bytes bs, zero beyond them
ValueByte(bs, i, n) == IF i <= n THEN bs[i] ELSE 0

\* C34: an operand whose first byte has bit 7 clear is Loc of the low seven
\* bits and takes one byte; with bit 7 set, (byte & 3) + 1 value bytes
\* follow, read as a little-endian value zero-extended to a word, and the
\* operand has the kind of bits 4-6; a source with fewer value bytes fails
\* with UnexpectedEnd, and the unmapped kind 7 with UndefinedOperation.
C34_OperandDecoding ==
    OneOperandRun =>
        LET meta == decoded.input[2]
            body == SubSeq(decoded.input, 3, Len(decoded.input))
            n == (meta % 4) + 1
            kind == (meta \div 16) % 8
            value == Word(ValueByte(body, 1, n) + 256 * ValueByte(body, 2, n),
                          ValueByte(body, 3, n) + 256 * ValueByte(body, 4, n))
            r == decoded.res
        IN
        /\ meta < 128 =>
                /\ r.ok
                /\ r.val.x = Loc(Word(meta, 0))
                /\ r.rest = body
        /\ (meta >= 128 /\ Len(body) < n) =>
                /\ ~r.ok
                /\ r.err = "UnexpectedEnd"
        /\ (meta >= 128 /\ Len(body) >= n /\ kind = 7) =>
                /\ ~r.ok
                /\ r.err = "UndefinedOperation"
        /\ (meta >= 128 /\ Len(body) >= n /\ kind < 7) =>
                /\ r.ok
                /\ r.val.x.k = operand_kinds[kind + 1]
                /\ kind # 6 => r.val.x.v = value
                /\ r.rest = SubSeq(body, n + 1, Len(body))

\* Go with a Ref of two value bytes, 12 and 144, has been decoded
C34_Witness ==
    /\ OneOperandRun
    /\ decoded.input = <<OpCode("Go"), 193, 12, 144>>
    /\ decoded.res.ok
    /\ decoded.res.val.x = Ref(Word(36876, 0))
    /\ decoded.res.rest = <<>>

\* the place on the call stack of the record that current_call() yields
CurrentIndex == IF prepared_call THEN Len(call_stack) - 1 ELSE Len(call_stack)

\* C35: the record that is the current frame, the one whose program the ops
\* are fetched from and whose base_ptr resolves the operands, is always one
\* that call() or a Clf has activated; a record that App pushed and no Clf
\* activated is never the current frame, and no op of its program is run.
C35_CurrentFrameWasActivated ==
    current_call(St).ok =>
        /\ current_call(St).call = call_stack[CurrentIndex]
        /\ ghost.recs[CurrentIndex].activated

\* C36: a successful Ret removes the call record of the function whose
\* program holds the Ret, the record current_call() named before it, and
\* afterwards prepared_call is false and the record on top is the current
\* frame; also when the Ret is executed between an App and its Clf.
C36_RetPopsItsOwnRecord ==
    (Ran({"Ret"}) /\ last.res = ExOk) =>
        /\ PreCall = last.pre.cs[Len(last.pre.cs)]
        /\ call_stack = SubSeq(last.pre.cs, 1, Len(last.pre.cs) - 1)
        /\ ~prepared_call
        /\ Len(call_stack) > 0 =>
                current_call(St).call = call_stack[Len(call_stack)]

\* C37: a Clf executed without a prepared call whose operand can be read
\* does not fail: it stores its operand and PC + 1 in the record of the
\* current frame and sets PC to 0; the depth of the call stack, the other
\* fields of the records and the stack are as they were.
C37_ClfWithoutAppRestarts ==
    LET pre == last.pre
        n == Len(pre.cs)
        r == get_val(pre, last.op.x, "Uw")
    IN (Ran({"Clf"}) /\ ~pre.prep /\ r.ok) =>
        /\ last.res = ExOk
        /\ call_stack = [pre.cs EXCEPT ![n].ret_val_ptr = r.val,
                                       ![n].ret_program_counter = pre.pc + 1]
        /\ program_counter = 0
        /\ stack = pre.stack
        /\ ~prepared_call
        /\ current_call(St).call.function = PreCall.function
        /\ current_call(St).call.base_ptr = PreCall.base_ptr

\* a Clf at PC 1 with no App before it has restarted the function
C37_Witness ==
    /\ Ran({"Clf"})
    /\ ~last.pre.prep
    /\ last.pre.pc = 1
    /\ last.res = ExOk
    /\ Len(call_stack) = 1
    /\ call_stack[1].ret_program_counter = 2
    /\ call_stack[1].ret_val_ptr = last.pre.cs[1].base_ptr + 1
    /\ program_counter = 0

\* C38: when App or call() returns an error, the call stack, prepared_call,
\* the length of the stack and the PC are what they were before.
C38_FailedCallChangesNothing ==
    ((Ran({"App"}) \/ last.by = "call") /\ Failed) =>
        /\ call_stack = last.pre.cs
        /\ prepared_call = last.pre.prep
        /\ Len(stack) = Len(last.pre.stack)
        /\ program_counter = last.pre.pc

\* C39: when In returns an error because an operand cannot be resolved or
\* written, no byte has been taken from the current file and no byte of the
\* memory has been written, neither for the value nor for the flag.
C39_FailedInConsumesNothing ==
    (Ran({"In"}) /\ Failed) =>
        /\ files = last.pre.files
        /\ stack = last.pre.stack

=============================================================================
